---- MODULE Spec2Model ----
(***************************************************************************)
(* Highlight detection and identity reconciliation of the Highlighter      *)
(* class (src/unnamed/part_001): the in-memory map from file path to       *)
(* highlight records, the debounced scan of the edited document, the       *)
(* three-tier matching of scanned occurrences against stored records, the  *)
(* change detector, and the create / rename / delete handlers.             *)
(*                                                                         *)
(* A document is a sequence of one-character strings.  Offsets are         *)
(* zero-based as in the source: the character at offset k of content c is  *)
(* c[k+1].                                                                 *)
(***************************************************************************)
EXTENDS Integers, Sequences, FiniteSets, TLC

\* ------------------------------------------------------------------------
\* String primitives of the host language, as the source uses them.
\* ------------------------------------------------------------------------

\* String.prototype.charAt: the empty string outside the text.
charAt(c, k) == IF k >= 0 /\ k < Len(c) THEN c[k + 1] ELSE ""

\* String.prototype.substring(a, b): both arguments are clamped to
\* 0..length and swapped when a > b.
clampIndex(c, k) == IF k < 0 THEN 0 ELSE IF k > Len(c) THEN Len(c) ELSE k

substring(c, a, b) ==
    LET ca == clampIndex(c, a)
        cb == clampIndex(c, b)
        lo == IF ca <= cb THEN ca ELSE cb
        hi == IF ca <= cb THEN cb ELSE ca
    IN  IF lo = hi THEN <<>> ELSE SubSeq(c, lo + 1, hi)

\* The characters the regular expression class \s matches.
isSpace(ch) == ch \in {" ", "\n", "\t"}

\* /^\s*$/.test(s)
isBlank(s) == \A k \in 1..Len(s) : isSpace(s[k])

\* String.prototype.trim
RECURSIVE trimLeft(_)
trimLeft(s) == IF s # <<>> /\ isSpace(Head(s)) THEN trimLeft(Tail(s)) ELSE s

RECURSIVE trimRight(_)
trimRight(s) ==
    IF s # <<>> /\ isSpace(s[Len(s)]) THEN trimRight(SubSeq(s, 1, Len(s) - 1)) ELSE s

trim(s) == trimRight(trimLeft(s))

\* The least element of a non-empty set of integers.
Least(S) == CHOOSE x \in S : \A y \in S : x <= y

\* The greatest element of a non-empty set of integers.
Greatest(S) == CHOOSE x \in S : \A y \in S : x >= y

\* Math.abs
abs(n) == IF n < 0 THEN 0 - n ELSE n

\* ------------------------------------------------------------------------
\* The two delimiter patterns (detectAndStoreMarkdownHighlights, first lines).
\* A match is a record [index, end, text]: match.index, match.index +
\* match[0].length and the capture match[1].
\* ------------------------------------------------------------------------

\* /==((?:[^=]|=[^=])+?)==/ from offset p inside the body.  The quantifier is
\* lazy: once one unit has been consumed the closing == is tried first; a
\* unit is one non-= character, or = followed by a non-= character.
\* Returns the offset of the closing ==, or -1.  The characters up to the
\* next = are units of one character each, so the search goes on from
\* that =, at offset q.
RECURSIVE markdownHighlightCloseAt(_, _, _, _)
markdownHighlightCloseAt(c, p, some, q) ==
    IF q >= Len(c) THEN -1
    ELSE IF (some \/ q > p) /\ charAt(c, q + 1) = "=" THEN q
    ELSE IF q + 1 < Len(c) /\ charAt(c, q + 1) # "="
         THEN markdownHighlightCloseAt(c, q + 2, TRUE,
                  Least({k \in (q + 2)..(Len(c) - 1) : c[k + 1] = "="} \cup {Len(c)}))
    ELSE -1

markdownHighlightClose(c, p, some) ==
    markdownHighlightCloseAt(c, p, some,
        Least({k \in p..(Len(c) - 1) : c[k + 1] = "="} \cup {Len(c)}))

\* The end of the match of markdownHighlightRegex that starts at offset i,
\* or -1 when the pattern does not match there.
markdownHighlightEndAt(c, i) ==
    IF charAt(c, i) = "=" /\ charAt(c, i + 1) = "="
    THEN LET e == markdownHighlightClose(c, i + 2, FALSE)
         IN  IF e = -1 THEN -1 ELSE e + 2
    ELSE -1

\* /%%([^%](?:[^%]|%[^%])*?)%%/ from offset p, after the first body
\* character: the closing %% is tried first at every unit boundary.
RECURSIVE commentHighlightClose(_, _)
commentHighlightClose(c, p) ==
    IF charAt(c, p) = "%" /\ charAt(c, p + 1) = "%" THEN p
    ELSE IF p >= Len(c) THEN -1
    ELSE IF charAt(c, p) # "%" THEN commentHighlightClose(c, p + 1)
    ELSE IF p + 1 < Len(c) /\ charAt(c, p + 1) # "%"
         THEN commentHighlightClose(c, p + 2)
    ELSE -1

commentHighlightEndAt(c, i) ==
    IF /\ charAt(c, i) = "%" /\ charAt(c, i + 1) = "%"
       /\ i + 2 < Len(c) /\ charAt(c, i + 2) # "%"
    THEN LET e == commentHighlightClose(c, i + 3)
         IN  IF e = -1 THEN -1 ELSE e + 2
    ELSE -1

\* The match end of the pattern of the given kind at offset i, or -1.
matchEndAt(c, i, kind) ==
    IF kind = "highlight" THEN markdownHighlightEndAt(c, i)
    ELSE commentHighlightEndAt(c, i)

\* The loop while ((match = regex.exec(content)) !== null) of a global
\* regular expression: the leftmost match at or after lastIndex, then on
\* from its end.
RECURSIVE execAll(_, _, _)
execAll(c, lastIndex, kind) ==
    LET starts == {i \in lastIndex..(Len(c) - 1) : matchEndAt(c, i, kind) # -1}
    IN  IF starts = {} THEN <<>>
        ELSE LET i == Least(starts)
                 e == matchEndAt(c, i, kind)
             IN  <<[index |-> i, end |-> e, text |-> substring(c, i + 2, e - 2)]>>
                 \o execAll(c, e, kind)

\* ------------------------------------------------------------------------
\* Region index: code-block ranges and link ranges.
\* ------------------------------------------------------------------------

\* The offset of the first "\n" at or after pos, or the length of the text:
\* the end of the line that starts at pos (content.split('\n')).
lineEndFrom(c, pos) ==
    Least({k \in pos..(Len(c) - 1) : c[k + 1] = "\n"} \cup {Len(c)})

\* The grave accent (U+0060), which cannot be written in a string literal
\* of this language: one document character like any other.
BACKTICK == "<grave>"

\* line.match of the two fence patterns (three grave accents, three tildes)
\* for the line starting at pos.
lineStartsWith3(c, pos, ch) ==
    charAt(c, pos) = ch /\ charAt(c, pos + 1) = ch /\ charAt(c, pos + 2) = ch

closesBlockOfAnyType(tick, wave, blockType) == (tick \/ wave) /\ blockType # "none"

\* The marker line closes the open block: currentBlockType is the type of
\* the marker.
closesBlock(tick, wave, blockType) ==
    \/ tick /\ blockType = "backtick"
    \/ wave /\ blockType = "wave"

currentBlockStartKept(closes, opens, currentPos, blockStart) ==
    IF opens THEN currentPos ELSE blockStart

\* currentBlockStart after the line: null after a closing marker, the
\* start of the line after an opening one.
currentBlockStart(closes, opens, currentPos, blockStart) ==
    IF closes THEN -1 ELSE IF opens THEN currentPos ELSE blockStart

\* The line loop of getCodeBlockRanges.  blockStart = -1 stands for null and
\* blockType is "backtick", "wave" or "none".
RECURSIVE fencedRanges(_, _, _, _)
fencedRanges(c, currentPos, blockStart, blockType) ==
    LET lineEnd == lineEndFrom(c, currentPos)
        tick == lineStartsWith3(c, currentPos, BACKTICK)
        wave == ~tick /\ lineStartsWith3(c, currentPos, "~")
        closes == closesBlock(tick, wave, blockType)
        opens == ~closes /\ (tick \/ wave) /\ blockStart = -1
        pushed == IF closes THEN <<[start |-> blockStart, end |-> lineEnd]>> ELSE <<>>
        nextStart == currentBlockStart(closes, opens, currentPos, blockStart)
        nextType == IF closes THEN "none"
                    ELSE IF opens THEN (IF tick THEN "backtick" ELSE "wave")
                    ELSE blockType
    IN  IF lineEnd >= Len(c)
        THEN pushed \o (IF nextStart # -1
                        THEN <<[start |-> nextStart, end |-> Len(c)]>> ELSE <<>>)
        ELSE pushed \o fencedRanges(c, lineEnd + 1, nextStart, nextType)

\* inlineCodeRegex (a grave accent, one or more characters that are neither
\* a grave accent nor a newline, lazily, and a grave accent) at offset i:
\* the end of the match or -1.
inlineCodeEndAt(c, i) ==
    IF charAt(c, i) # BACKTICK THEN -1
    ELSE LET stops == {j \in (i + 1)..(Len(c) - 1) : c[j + 1] \in {BACKTICK, "\n"}}
         IN  IF stops = {} THEN -1
             ELSE LET j == Least(stops)
                  IN  IF c[j + 1] = BACKTICK /\ j >= i + 2 THEN j + 1 ELSE -1

\* /\[([^\]]+)\]\(([^)]+)\)/ at offset i: the end of the match or -1.
linkEndAt(c, i) ==
    IF charAt(c, i) # "[" THEN -1
    ELSE LET closeB == {j \in (i + 1)..(Len(c) - 1) : c[j + 1] = "]"}
         IN  IF closeB = {} THEN -1
             ELSE LET j == Least(closeB)
                      closeP == {k \in (j + 2)..(Len(c) - 1) : c[k + 1] = ")"}
                  IN  IF j < i + 2 \/ charAt(c, j + 1) # "(" \/ closeP = {} THEN -1
                      ELSE LET k == Least(closeP)
                           IN  IF k >= j + 3 THEN k + 1 ELSE -1

\* The exec loop of a global regular expression that yields ranges.
rangeEndAt(c, i, kind) ==
    IF kind = "inlineCode" THEN inlineCodeEndAt(c, i) ELSE linkEndAt(c, i)

RECURSIVE execRanges(_, _, _)
execRanges(c, lastIndex, kind) ==
    LET starts == {i \in lastIndex..(Len(c) - 1) : rangeEndAt(c, i, kind) # -1}
    IN  IF starts = {} THEN <<>>
        ELSE LET i == Least(starts)
                 e == rangeEndAt(c, i, kind)
             IN  <<[start |-> i, end |-> e]>> \o execRanges(c, e, kind)

getCodeBlockRanges(c) ==
    fencedRanges(c, 0, -1, "none") \o execRanges(c, 0, "inlineCode")

getMarkdownLinkRanges(c) == execRanges(c, 0, "link")

isInsideCodeBlockNever(start, end, codeBlockRanges) == FALSE

isInsideCodeBlock(start, end, codeBlockRanges) ==
    \E r \in 1..Len(codeBlockRanges) :
        start < codeBlockRanges[r].end /\ end > codeBlockRanges[r].start

\* linkText.indexOf('](')
indexOfBracketParen(linkText) ==
    LET at == {k \in 0..(Len(linkText) - 2) :
                   linkText[k + 1] = "]" /\ linkText[k + 2] = "("}
    IN  IF at = {} THEN -1 ELSE Least(at)

isHighlightDelimiterInLink(highlightStart, highlightEnd, c, linkRanges) ==
    \E r \in 1..Len(linkRanges) :
        LET linkRange == linkRanges[r]
            linkText == substring(c, linkRange.start, linkRange.end)
            urlStart == linkRange.start + indexOfBracketParen(linkText) + 2
            urlEnd == linkRange.end - 1
        IN  \/ highlightStart >= urlStart /\ highlightStart + 2 <= urlEnd
            \/ highlightEnd - 2 >= urlStart /\ highlightEnd <= urlEnd

\* ------------------------------------------------------------------------
\* Footnotes.
\* ------------------------------------------------------------------------

\* The characters the class \w matches, among the characters documents of
\* this model are made of.
isWord(ch) == ch \in {"a", "b", "c", "k", "n", "x", "y", "0", "1", "2", "_"}

\* The first offset at or after i that holds no whitespace (the greedy \s*).
skipSpaces(c, i) ==
    Least({k \in i..(Len(c) - 1) : ~isSpace(c[k + 1])} \cup {IF i > Len(c) THEN i ELSE Len(c)})

\* The first offset at or after i that holds no word character (the greedy \w+).
skipWord(c, i) ==
    Least({k \in i..(Len(c) - 1) : ~isWord(c[k + 1])} \cup {IF i > Len(c) THEN i ELSE Len(c)})

\* One definition /^\[\^(\w+)\]:\s*(.+)$/gm at the line start i: the record
\* [end, key, content] of the match, with end = -1 when there is none.  \s*
\* is greedy and runs over newlines; (.+) is the rest of the line it stops
\* on.  When only whitespace follows, \s* gives characters back until (.+)
\* has a blank or a tab to take (the last one), and the content is
\* whitespace.
footnoteDefinitionAt(c, i) ==
    LET keyEnd == skipWord(c, i + 2)
        noMatch == [end |-> -1, key |-> <<>>, content |-> <<>>]
    IN  IF ~(/\ charAt(c, i) = "[" /\ charAt(c, i + 1) = "^"
             /\ keyEnd > i + 2
             /\ charAt(c, keyEnd) = "]" /\ charAt(c, keyEnd + 1) = ":")
        THEN noMatch
        ELSE LET from == keyEnd + 2
                 q == skipSpaces(c, from)
                 key == substring(c, i + 2, keyEnd)
             IN  IF q < Len(c)
                 THEN [end |-> lineEndFrom(c, q), key |-> key,
                       content |-> substring(c, q, lineEndFrom(c, q))]
                 ELSE LET blanks == {k \in from..(Len(c) - 1) : c[k + 1] # "\n"}
                      IN  IF blanks = {} THEN noMatch
                          ELSE LET b == Greatest(blanks)
                               IN  [end |-> lineEndFrom(c, b), key |-> key,
                                    content |-> substring(c, b, lineEndFrom(c, b))]

\* The offsets at which a line starts (the anchor ^ under the m flag).
isLineStart(c, i) == i = 0 \/ charAt(c, i - 1) = "\n"

\* extractFootnotes: the exec loop over the definitions; a later definition of
\* a key replaces an earlier one (Map.set).  The map is a function from the
\* keys defined to their trimmed content.
\* footnoteMap.set(match[1], match[2].trim())
mapSetFootnote(footnoteMap, key, content) ==
    [k \in DOMAIN footnoteMap \cup {key} |->
        IF k = key THEN trim(content) ELSE footnoteMap[k]]

RECURSIVE extractFootnotesFrom(_, _, _)
RECURSIVE extractFootnotesAfter(_, _, _)
extractFootnotesFrom(c, lastIndex, footnoteMap) ==
    LET starts == {i \in lastIndex..(Len(c) - 1) :
                       isLineStart(c, i) /\ footnoteDefinitionAt(c, i).end # -1}
    IN  IF starts = {} THEN footnoteMap
        ELSE extractFootnotesAfter(c, footnoteDefinitionAt(c, Least(starts)), footnoteMap)

\* The body of the loop for the definition d, and the rest of the loop.
extractFootnotesAfter(c, d, footnoteMap) ==
    extractFootnotesFrom(c, d.end, mapSetFootnote(footnoteMap, d.key, d.content))

extractFootnotes(c) == extractFootnotesFrom(c, 0, <<>>)

\* The inline footnote ^[text] at offset i: the end of the match or -1.
inlineFootnoteEndAt(c, i) ==
    IF charAt(c, i) # "^" \/ charAt(c, i + 1) # "[" THEN -1
    ELSE LET closeB == {j \in (i + 2)..(Len(c) - 1) : c[j + 1] = "]"}
         IN  IF closeB = {} \/ Least(closeB) < i + 3 THEN -1 ELSE Least(closeB) + 1

\* STANDARD_FOOTNOTE_REGEX: the reference [^key] at offset i that is not the
\* head of a definition [^key]: ; the end of the match or -1.
standardFootnoteEndAt(c, i) ==
    LET keyEnd == skipWord(c, i + 2)
    IN  IF /\ charAt(c, i) = "[" /\ charAt(c, i + 1) = "^"
           /\ keyEnd > i + 2
           /\ charAt(c, keyEnd) = "]" /\ charAt(c, keyEnd + 1) # ":"
        THEN keyEnd + 1 ELSE -1

footnoteEndAt(c, i, kind) ==
    IF kind = "inline" THEN inlineFootnoteEndAt(c, i) ELSE standardFootnoteEndAt(c, i)

\* The end of the longest prefix of c, from offset i, made of footnotes of
\* either syntax, each after optional whitespace.
RECURSIVE footnoteChainEnd(_, _)
footnoteChainEnd(c, i) ==
    LET j == skipSpaces(c, i)
        e == IF inlineFootnoteEndAt(c, j) # -1 THEN inlineFootnoteEndAt(c, j)
             ELSE standardFootnoteEndAt(c, j)
    IN  IF e = -1 THEN i ELSE footnoteChainEnd(c, e)

\* InlineFootnoteManager.calculateFootnoteLength: the number of leading
\* characters that constitute zero or more footnotes, 0 if none.
calculateFootnoteLength(text) == footnoteChainEnd(text, 0)

\* FOOTNOTE_VALIDATION_REGEX.test: only footnotes and whitespace.
footnoteValidation(text) ==
    isBlank(substring(text, footnoteChainEnd(text, 0), Len(text)))

\* The loop over the footnote references of one syntax that follow a
\* highlight: a reference is accepted when it starts where the previous
\* accepted one ended or only footnotes and whitespace lie between; the loop
\* stops at the first reference that is not.  Yields [index, end] in
\* afterHighlight.
RECURSIVE footnoteRun(_, _, _)
footnoteRun(afterHighlight, lastValidPosition, kind) ==
    LET starts == {i \in lastValidPosition..(Len(afterHighlight) - 1) :
                       footnoteEndAt(afterHighlight, i, kind) # -1}
    IN  IF starts = {} THEN <<>>
        ELSE LET i == Least(starts)
                 e == footnoteEndAt(afterHighlight, i, kind)
                 precedingText == substring(afterHighlight, lastValidPosition, i)
             IN  IF i = lastValidPosition \/ footnoteValidation(precedingText)
                 THEN <<[index |-> i, end |-> e]>> \o footnoteRun(afterHighlight, e, kind)
                 ELSE <<>>

\* InlineFootnoteManager.extractInlineFootnotes(content, position): the
\* inline footnotes of the chain after the highlight, [content, startIndex].
inlineFootnotesOf(afterHighlight, run, position) ==
    [r \in 1..Len(run) |->
        [content |-> substring(afterHighlight, run[r].index + 2, run[r].end - 1),
         startIndex |-> position + run[r].index]]

extractInlineFootnotes(c, position) ==
    inlineFootnotesOf(substring(c, position, Len(c)),
                      footnoteRun(substring(c, position, Len(c)), 0, "inline"),
                      position)

\* ------------------------------------------------------------------------
\* Marker scanner: the part of detectAndStoreMarkdownHighlights that reads
\* only the text.
\* ------------------------------------------------------------------------

sortByIndexNot(ms) == ms

\* Array.prototype.sort((a, b) => a.index - b.index): stable, ascending.
RECURSIVE insertByIndex(_, _)
insertByIndex(sorted, m) ==
    IF sorted = <<>> THEN <<m>>
    ELSE IF sorted[Len(sorted)].index <= m.index THEN Append(sorted, m)
    ELSE Append(insertByIndex(SubSeq(sorted, 1, Len(sorted) - 1), m), sorted[Len(sorted)])

RECURSIVE sortByIndexFrom(_, _)
sortByIndexFrom(sorted, rest) ==
    IF rest = <<>> THEN sorted
    ELSE sortByIndexFrom(insertByIndex(sorted, Head(rest)), Tail(rest))

sortByIndex(ms) == sortByIndexFrom(<<>>, ms)

\* The three filters of a delimiter loop: not over a code block, no delimiter
\* in a link URL, no further delimiter character directly before or after.
survivesFiltersOfRegions(c, m, delim, codeBlockRanges, markdownLinkRanges) ==
    /\ ~isInsideCodeBlock(m.index, m.end, codeBlockRanges)
    /\ ~isHighlightDelimiterInLink(m.index, m.end, c, markdownLinkRanges)

survivesFilters(c, m, delim, codeBlockRanges, markdownLinkRanges) ==
    /\ ~isInsideCodeBlock(m.index, m.end, codeBlockRanges)
    /\ ~isHighlightDelimiterInLink(m.index, m.end, c, markdownLinkRanges)
    /\ charAt(c, m.index - 1) # delim
    /\ charAt(c, m.end) # delim

\* The matches one delimiter loop pushes on allMatches, tagged with the type.
withType(kept, kind) ==
    [k \in 1..Len(kept) |->
        [index |-> kept[k].index, end |-> kept[k].end, text |-> kept[k].text,
         type |-> kind]]

pushedMatches(c, kind, delim) ==
    LET codeBlockRanges == getCodeBlockRanges(c)
        markdownLinkRanges == getMarkdownLinkRanges(c)
    IN  withType(SelectSeq(execAll(c, 0, kind),
                    LAMBDA m : survivesFilters(c, m, delim, codeBlockRanges,
                                               markdownLinkRanges)),
                 kind)

\* allMatches after both loops and the sort.
allMatchesOf(c) ==
    sortByIndex(pushedMatches(c, "highlight", "=") \o pushedMatches(c, "comment", "%"))

hasBlankLineNever(s) == FALSE

\* /\n\s*\n/.test(s)
hasBlankLine(s) ==
    \E a \in 1..Len(s) : \E b \in (a + 1)..Len(s) :
        /\ s[a] = "\n" /\ s[b] = "\n"
        /\ \A k \in (a + 1)..(b - 1) : isSpace(s[k])

\* The test of the adjacency loop for allMatches[i] and allMatches[i + 1]
\* (one-based i): a highlight followed by a comment with only footnotes and
\* whitespace, and no blank line, between them.
isAdjacentComment(c, ms, i) ==
    /\ i >= 1 /\ i < Len(ms)
    /\ ms[i].type = "highlight" /\ ms[i + 1].type = "comment"
    /\ LET betweenText == substring(c, ms[i].end, ms[i + 1].index)
           footnoteLength == calculateFootnoteLength(betweenText)
           afterFootnotes == substring(betweenText, footnoteLength, Len(betweenText))
       IN  isBlank(afterFootnotes) /\ ~hasBlankLine(afterFootnotes)
    /\ ms[i + 1].text # <<>>

\* content.substring(0, match.index).split('\n').length - 1
lineNumberOf(c, index) == Cardinality({k \in 1..index : c[k] = "\n"})

\* The same, stopping at the first reference that does not resolve.
RECURSIVE resolvedFootnotesUntilUnresolved(_, _, _)
resolvedFootnotesUntilUnresolved(refs, highlightEnd, footnoteMap) ==
    IF refs = <<>> THEN <<>>
    ELSE IF refs[1].key \notin DOMAIN footnoteMap \/ trim(footnoteMap[refs[1].key]) = <<>>
    THEN <<>>
    ELSE <<[index |-> highlightEnd + refs[1].index,
            content |-> trim(footnoteMap[refs[1].key])]>>
         \o resolvedFootnotesUntilUnresolved(Tail(refs), highlightEnd, footnoteMap)

\* The standard footnotes of the chain after a highlight that resolve to a
\* non-empty definition, as entries [index, content] of allFootnotes.
\* The references of run, [index, key], whose key has a non-empty definition.
resolvedFootnotes(refs, highlightEnd, footnoteMap) ==
    LET resolved == SelectSeq(refs,
                        LAMBDA ref : /\ ref.key \in DOMAIN footnoteMap
                                     /\ trim(footnoteMap[ref.key]) # <<>>)
    IN  [k \in 1..Len(resolved) |->
            [index |-> highlightEnd + resolved[k].index,
             content |-> trim(footnoteMap[resolved[k].key])]]

footnoteKeys(afterHighlight, run) ==
    [r \in 1..Len(run) |->
        [index |-> run[r].index,
         key |-> substring(afterHighlight, run[r].index + 2, run[r].end - 1)]]

standardFootnotesAfter(c, highlightEnd, footnoteMap) ==
    resolvedFootnotes(
        footnoteKeys(substring(c, highlightEnd, Len(c)),
                     footnoteRun(substring(c, highlightEnd, Len(c)), 0, "standard")),
        highlightEnd, footnoteMap)

\* footnoteContents of the match allMatches[i] of type highlight.
\* The entries [index, content] of the inline footnotes with content.
inlineEntries(nonEmpty) ==
    [k \in 1..Len(nonEmpty) |->
        [index |-> nonEmpty[k].startIndex, content |-> trim(nonEmpty[k].content)]]

\* allFootnotes.map(f => f.content)
contentsOf(allFootnotes) == [k \in 1..Len(allFootnotes) |-> allFootnotes[k].content]

highlightFootnoteContents(c, ms, i, footnoteMap) ==
    LET inline == inlineEntries(SelectSeq(extractInlineFootnotes(c, ms[i].end),
                                          LAMBDA f : trim(f.content) # <<>>))
        standard == standardFootnotesAfter(c, ms[i].end, footnoteMap)
        adjacent == IF isAdjacentComment(c, ms, i)
                    THEN <<[index |-> ms[i + 1].index, content |-> trim(ms[i + 1].text)]>>
                    ELSE <<>>
    IN  contentsOf(sortByIndex(inline \o standard \o adjacent))

\* The occurrences the main loop reconciles, in order: every match that was
\* not merged into the preceding highlight and whose text is not blank, with
\* the fields the loop computes from the text alone.
\* The fields of the occurrence of match m with the given footnotes.
occurrenceOf(c, m, footnoteContents) ==
    [text |-> m.text,
     startOffset |-> m.index,
     endOffset |-> m.end,
     line |-> lineNumberOf(c, m.index),
     footnoteContents |-> footnoteContents,
     footnoteCount |-> Len(footnoteContents),
     isNativeComment |-> (m.type = "comment"),
     type |-> m.type]

\* The main loop over allMatches = ms with the footnote definitions of c.
emittedOccurrences(c, ms, emitted, footnoteMap) ==
    [k \in 1..Len(emitted) |->
        occurrenceOf(c, ms[emitted[k]],
            IF ms[emitted[k]].type = "comment" THEN <<ms[emitted[k]].text>>
            ELSE highlightFootnoteContents(c, ms, emitted[k], footnoteMap))]

\* The indices of the matches the main loop does not skip.
emittedMatches(c, ms) ==
    SelectSeq([i \in 1..Len(ms) |-> i],
        LAMBDA i : /\ ~isAdjacentComment(c, ms, i - 1)
                   /\ trim(ms[i].text) # <<>>)

matchOccurrences(c, ms, footnoteMap) ==
    emittedOccurrences(c, ms, emittedMatches(c, ms), footnoteMap)

scanOccurrences(c) == matchOccurrences(c, allMatchesOf(c), extractFootnotes(c))

\* ------------------------------------------------------------------------
\* Identity reconciler and change detector.
\*
\* A stored Highlight is a record; a property the source leaves undefined is
\* a field the record does not have.  createHighlight writes id, text, tags,
\* line, startOffset, endOffset, filePath and createdAt; a scan also writes
\* footnoteCount, footnoteContents, isNativeComment and type.
\* ------------------------------------------------------------------------

\* The position window of the second tier, in characters.
FuzzyWindow == 50

\* h.isNativeComment === isComment, with isComment a boolean.
sameKind(h, isComment) ==
    "isNativeComment" \in DOMAIN h /\ h.isNativeComment = isComment

\* A first tier that never finds a record.
exactCandidatesNone(existing, used, text, startOffset, endOffset, isComment) == {}

\* First tier of findExistingHighlight: the indexes of the stored records
\* the predicate of exactMatch accepts.
exactCandidates(existing, used, text, startOffset, endOffset, isComment) ==
    {k \in 1..Len(existing) :
        /\ existing[k].id \notin used
        /\ existing[k].text = text
        /\ existing[k].startOffset = startOffset
        /\ existing[k].endOffset = endOffset
        /\ sameKind(existing[k], isComment)}

\* A second tier that forgets usedExistingHighlights.
fuzzyCandidatesReusing(existing, used, text, startOffset, isComment) ==
    {k \in 1..Len(existing) :
        /\ existing[k].text = text
        /\ abs(existing[k].startOffset - startOffset) <= FuzzyWindow
        /\ sameKind(existing[k], isComment)}

\* Second tier: same text and kind, start within the window.
fuzzyCandidates(existing, used, text, startOffset, isComment) ==
    {k \in 1..Len(existing) :
        /\ existing[k].id \notin used
        /\ existing[k].text = text
        /\ abs(existing[k].startOffset - startOffset) <= FuzzyWindow
        /\ sameKind(existing[k], isComment)}

\* A third tier that never finds a record.
textCandidatesNone(existing, used, text, isComment) == {}

\* A third tier without the test that the text is the only one.
textCandidatesAnyText(existing, used, text, isComment) ==
    {k \in 1..Len(existing) :
        /\ existing[k].id \notin used
        /\ existing[k].text = text
        /\ sameKind(existing[k], isComment)}

\* Third tier: same text and kind, and no other stored record, used or not,
\* with that text and kind.
textCandidates(existing, used, text, isComment) ==
    {k \in 1..Len(existing) :
        /\ existing[k].id \notin used
        /\ existing[k].text = text
        /\ sameKind(existing[k], isComment)
        /\ ~\E o \in 1..Len(existing) :
               o # k /\ existing[o].text = text /\ sameKind(existing[o], isComment)}

\* A lookup that never finds a record.
findExistingHighlightNone(existing, used, text, startOffset, endOffset, isComment) == 0

\* A lookup with the first tier alone.
findExistingHighlightExactOnly(existing, used, text, startOffset, endOffset, isComment) ==
    LET exact == exactCandidates(existing, used, text, startOffset, endOffset, isComment)
    IN  IF exact # {} THEN Least(exact) ELSE 0

\* findExistingHighlight: the index in the stored list of the record found
\* (Array.prototype.find takes the first), 0 for undefined.
findExistingHighlight(existing, used, text, startOffset, endOffset, isComment) ==
    LET exact == exactCandidates(existing, used, text, startOffset, endOffset, isComment)
        fuzzy == fuzzyCandidates(existing, used, text, startOffset, isComment)
        textOnly == textCandidates(existing, used, text, isComment)
    IN  IF exact # {} THEN Least(exact)
        ELSE IF fuzzy # {} THEN Least(fuzzy)
        ELSE IF textOnly # {} THEN Least(textOnly)
        ELSE 0

\* generateId: Math.random taken as fresh, that is, an id that no record of
\* the map and no record made so far in this pass carries.
generateId(taken) == Least({n \in 1..(Cardinality(taken) + 1) : n \notin taken})

\* The same with the spread written last: the stored fields win.
matchedHighlightStale(h, occ, filePath, now) ==
    h @@ [line |-> occ.line,
          startOffset |-> occ.startOffset,
          endOffset |-> occ.endOffset,
          filePath |-> filePath,
          footnoteCount |-> occ.footnoteCount,
          footnoteContents |-> occ.footnoteContents,
          isNativeComment |-> occ.isNativeComment,
          createdAt |-> now,
          type |-> occ.type]

\* The record pushed when the occurrence matched the stored record h: the
\* spread of h with the fields of the current scan written over it.
matchedHighlight(h, occ, filePath, now) ==
    [line |-> occ.line,
     startOffset |-> occ.startOffset,
     endOffset |-> occ.endOffset,
     filePath |-> filePath,
     footnoteCount |-> occ.footnoteCount,
     footnoteContents |-> occ.footnoteContents,
     isNativeComment |-> occ.isNativeComment,
     createdAt |-> IF "createdAt" \in DOMAIN h /\ h.createdAt # 0 THEN h.createdAt ELSE now,
     type |-> occ.type] @@ h

\* The record pushed when no stored record matched.
newHighlight(id, occ, filePath, mtime) ==
    [id |-> id,
     text |-> occ.text,
     tags |-> <<>>,
     line |-> occ.line,
     startOffset |-> occ.startOffset,
     endOffset |-> occ.endOffset,
     filePath |-> filePath,
     footnoteCount |-> occ.footnoteCount,
     footnoteContents |-> occ.footnoteContents,
     createdAt |-> mtime + (occ.startOffset % 1000),
     isNativeComment |-> occ.isNativeComment,
     type |-> occ.type]

\* The main loop of detectAndStoreMarkdownHighlights over the occurrences
\* from the k-th on: used is usedExistingHighlights, taken the ids that
\* generateId may not return.
RECURSIVE reconcileFrom(_, _, _, _, _, _, _, _)
reconcileFrom(existing, occs, k, used, taken, filePath, mtime, now) ==
    IF k > Len(occs) THEN <<>>
    ELSE LET occ == occs[k]
             found == findExistingHighlight(existing, used, occ.text, occ.startOffset,
                                            occ.endOffset, occ.isNativeComment)
         IN  IF found # 0
             THEN <<matchedHighlight(existing[found], occ, filePath, now)>>
                  \o reconcileFrom(existing, occs, k + 1, used \cup {existing[found].id},
                                   taken, filePath, mtime, now)
             ELSE LET id == generateId(taken)
                  IN  <<newHighlight(id, occ, filePath, mtime)>>
                      \o reconcileFrom(existing, occs, k + 1, used, taken \cup {id},
                                       filePath, mtime, now)

\* The field of the normalized projection that JSON.stringify writes only
\* when the property is defined.
optionalField(name, h, field) ==
    IF field \in DOMAIN h THEN name :> h[field] ELSE <<>>

\* c.trim() !== ''
notBlank(c) == trim(c) # <<>>

\* The object the change detector serializes for one record.
projectionOf(h) ==
    [id |-> h.id, start |-> h.startOffset, end |-> h.endOffset, text |-> h.text]
    @@ optionalField("footnotes", h, "footnoteCount")
    @@ (IF "footnoteContents" \in DOMAIN h
        THEN "contents" :> SelectSeq(h.footnoteContents, notBlank) ELSE <<>>)
    @@ optionalField("color", h, "color")
    @@ optionalField("isNativeComment", h, "isNativeComment")

\* JSON.stringify(list.map(...)): equal strings exactly when the projected
\* lists are equal.
normalizedJSON(list) == [k \in 1..Len(list) |-> projectionOf(list[k])]

\* A change detector that always sees a change.
hasChangesAlways(existing, newHighlights) == TRUE

\* oldHighlightsJSON !== newHighlightsJSON
hasChanges(existing, newHighlights) ==
    normalizedJSON(existing) # normalizedJSON(newHighlights)

\* ------------------------------------------------------------------------
\* File filters of the handlers.
\* ------------------------------------------------------------------------

\* The vault paths of this model: markdown files whose name does not end in
\* .excalidraw.md.
Paths == {"a.md", "b.md", "c.md"}

\* The paths of the files of a session and of the files it creates.
SessionPaths == {"a.md", "b.md"}

\* file.name.endsWith('.excalidraw.md'): no path of this model does.
hasExcalidrawName(path) == path \notin Paths

\* shouldProcessFile: extension md and not an Excalidraw name.
shouldProcessFile(path) == path \in Paths /\ ~hasExcalidrawName(path)

\* Whether needle occurs in hay at offset i.
occursAt(hay, needle, i) ==
    i + Len(needle) <= Len(hay) /\ \A k \in 1..Len(needle) : hay[i + k] = needle[k]

\* isExcalidrawFile: the name test, then the front matter between a leading
\* "---\n" and the next "\n---" holding excalidraw-plugin:\s*parsed or
\* tags:\s*[...excalidraw...].
isExcalidrawFile(path, c) ==
    LET open == <<"-", "-", "-", "\n">>
        close == <<"\n", "-", "-", "-">>
        closes == {e \in 4..(Len(c) - 1) : occursAt(c, close, e)}
        frontmatter == substring(c, 4, Least(closes))
        key == <<"e","x","c","a","l","i","d","r","a","w","-","p","l","u","g","i","n",":">>
        parsed == <<"p","a","r","s","e","d">>
        tags == <<"t","a","g","s",":">>
        word == <<"e","x","c","a","l","i","d","r","a","w">>
    IN  \/ hasExcalidrawName(path)
        \/ /\ occursAt(c, open, 0) /\ closes # {}
           /\ \/ \E i \in 0..Len(frontmatter) :
                    /\ occursAt(frontmatter, key, i)
                    /\ occursAt(frontmatter, parsed, skipSpaces(frontmatter, i + Len(key)))
              \/ \E i \in 0..Len(frontmatter) :
                    /\ occursAt(frontmatter, tags, i)
                    /\ charAt(frontmatter, skipSpaces(frontmatter, i + Len(tags))) = "["
                    /\ LET rest == substring(frontmatter,
                                       skipSpaces(frontmatter, i + Len(tags)) + 1,
                                       lineEndFrom(frontmatter, i))
                       IN  \E w \in 0..Len(rest) : \E b \in w..Len(rest) :
                               /\ occursAt(rest, word, w)
                               /\ b >= w + Len(word) /\ charAt(rest, b) = "]"

\* ------------------------------------------------------------------------
\* The documents and the inputs of the model.
\* ------------------------------------------------------------------------

\* Length of the short run of plain text.
ShortPad == 5

\* Length of a run of plain text that moves what follows it, and a
\* highlight in front of it, out of the fuzzy window.
LongPad == FuzzyWindow + ShortPad + 1

\* The number of modifications (edits, created highlights, created files) a
\* behaviour makes.
MaxEdits == 2

\* The longest selection createHighlight is called with.
MaxSelection == 1

Pad(n) == [k \in 1..n |-> "x"]

Highlighted(t) == <<"=", "=">> \o t \o <<"=", "=">>

Commented(t) == <<"%", "%">> \o t \o <<"%", "%">>

HA == Highlighted(<<"a">>)

CA == Commented(<<"a">>)

CB == Commented(<<" ", "b", " ">>)

\* The texts of a behaviour that follows one file through its edits: a
\* highlight at the start, shifted inside and outside the fuzzy window,
\* doubled with a short and a long gap, a comment of the same text, and a
\* comment right after a highlight.
RichDocs ==
    {<<>>,
     HA,
     Pad(ShortPad) \o HA,
     Pad(2 * ShortPad) \o HA,
     Pad(LongPad) \o HA,
     HA \o Pad(ShortPad) \o HA,
     HA \o Pad(LongPad) \o HA,
     Pad(2 * ShortPad) \o HA \o Pad(LongPad) \o HA,
     CA,
     HA \o CB}

\* The texts of a behaviour with two files.
PlainDocs == {<<>>, HA}

\* The two kinds of behaviour: the files that exist when the plugin loads
\* and the texts their editors are given.
Sessions ==
    {[files |-> {"a.md"}, docs |-> RichDocs],
     [files |-> {"a.md", "b.md"}, docs |-> PlainDocs]}

Docs == RichDocs \cup PlainDocs

\* The selections createHighlight is called with: [from, to).
Selections ==
    {<<from, from + len>> : from \in 0..(MaxSelection - 1), len \in 1..MaxSelection}

\* editor.replaceSelection("==" + selection + "==")
replaceSelection(content, from, to) ==
    substring(content, 0, from) \o Highlighted(substring(content, from, to))
    \o substring(content, to, Len(content))

\* The texts an editor can hold after n calls of createHighlight.
RECURSIVE EditorTexts(_)
EditorTexts(n) ==
    IF n = 0 THEN Docs
    ELSE LET prev == EditorTexts(n - 1)
         IN  prev \cup {replaceSelection(ds[1], ds[2][1], ds[2][2]) :
                           ds \in {x \in prev \X Selections : x[2][2] <= Len(x[1])}}

\* The scan reads the text alone: its result on these texts, computed once.
KnownDocs == EditorTexts(MaxEdits - 1)

KnownOccurrences == [text \in KnownDocs |-> scanOccurrences(text)]

occurrencesOf(text) ==
    IF text \in KnownDocs THEN KnownOccurrences[text] ELSE scanOccurrences(text)

\* Date.now() and file.stat.mtime at the n-th modification, in milliseconds.
TimeOf(n) == n * 1000

\* ------------------------------------------------------------------------
\* State.
\* ------------------------------------------------------------------------

VARIABLES
    session,     \* the files and texts of this behaviour; never changes
    vault,       \* the text of every file that exists, by path
    mtime,       \* file.stat.mtime of every file that exists, by path
    clock,       \* the number of modifications made so far
    highlights,  \* Highlighter.highlights: Map from path to Highlight[]
    timeout,     \* the pending timers of detectHighlightsTimeout: their views
    unscanned,   \* the files edited in an editor and not scanned since
    last,        \* what the handler that ran last did
    sidenote     \* SidenotePlugin: the time, resizeThrottleTime and the frames requested

vars == <<session, vault, mtime, clock, highlights, timeout, unscanned, last, sidenote>>

\* The window resize handler of SidenotePlugin.onload calls both throttled
\* schedulers with this interval, in milliseconds.
minInterval == 100

\* SidenotePlugin when onload has run at the time TimeOf(1):
\* resizeThrottleTime is 0; rafId tells whether an editing-mode layout frame
\* is requested and readingFrames counts the reading-mode frames requested;
\* events counts the resize events and waits so far.
SidenoteLoaded ==
    [now |-> TimeOf(1), resizeThrottleTime |-> 0, rafId |-> FALSE, readingFrames |-> 0,
     events |-> 0]

\* view.file === null
Null == ""

\* this.highlights.get(path) || []
getHighlights(path) == IF path \in DOMAIN highlights THEN highlights[path] ELSE <<>>

mapSetAlone(map, path, list) == path :> list

\* this.highlights.set(path, list) and this.highlights.delete(path)
mapSet(map, path, list) ==
    [q \in DOMAIN map \cup {path} |-> IF q = path THEN list ELSE map[q]]

mapDelete(map, path) == [q \in DOMAIN map \ {path} |-> map[q]]

\* The ids of all records of the map.
allIds == UNION {{highlights[q][k].id : k \in 1..Len(highlights[q])} : q \in DOMAIN highlights}

Init ==
    /\ session \in Sessions
    /\ vault = [p \in session.files |-> <<>>]
    /\ mtime = [p \in session.files |-> TimeOf(1)]
    /\ clock = 1
    /\ highlights = <<>>
    /\ timeout = <<>>
    /\ unscanned = {}
    /\ last = [op |-> "onload"]
    /\ sidenote = SidenoteLoaded

\* ------------------------------------------------------------------------
\* Handlers.
\* ------------------------------------------------------------------------

\* The end of detectAndStoreMarkdownHighlights: the change detector, which
\* replaces the list and saves only when the normalized serializations
\* differ.  last.rescan tells whether the handler before this one was a scan
\* of the same file with the same text.
storeIfChanged(content, path, fileMtime, existing, newHighlights) ==
    /\ highlights' = IF hasChanges(existing, newHighlights)
                     THEN mapSet(highlights, path, newHighlights)
                     ELSE highlights
    /\ unscanned' = unscanned \ {path}
    /\ last' = [op |-> "scan", path |-> path,
                content |-> content, mtime |-> fileMtime,
                existing |-> existing,
                newHighlights |-> newHighlights,
                saved |-> hasChanges(existing, newHighlights),
                before |-> highlights,
                rescan |-> (/\ last.op = "scan" /\ last.path = path
                            /\ last.content = content)]

\* detectAndStoreMarkdownHighlights(content, file): scan, reconcile against
\* the stored list of file.path, store.
detectAndStoreMarkdownHighlights(content, path, fileMtime) ==
    storeIfChanged(content, path, fileMtime, getHighlights(path),
        reconcileFrom(getHighlights(path), occurrencesOf(content), 1, {}, allIds,
                      path, fileMtime, TimeOf(clock)))

clearTimeoutNot(pending) == pending

\* window.clearTimeout(this.detectHighlightsTimeout): the pending timers
\* that remain.
clearTimeout(pending) == <<>>

\* debounceDetectMarkdownHighlights(editor, view): the pending timers after
\* the call.
debounceDetectMarkdownHighlights(pending, view) == Append(clearTimeout(pending), view)

\* The editor-change event of the view of file path, whose text has become
\* text: debounceDetectMarkdownHighlights clears the pending timer and
\* starts one for this editor and view.
EditorChange(path, text) ==
    /\ path \in DOMAIN vault
    /\ text \in session.docs /\ text # vault[path]
    /\ clock <= MaxEdits
    /\ vault' = [vault EXCEPT ![path] = text]
    /\ clock' = clock + 1
    /\ mtime' = [mtime EXCEPT ![path] = TimeOf(clock + 1)]
    /\ timeout' = debounceDetectMarkdownHighlights(timeout, [file |-> path])
    /\ unscanned' = unscanned \cup {path}
    /\ last' = [op |-> "editor-change", path |-> path, restarted |-> timeout # <<>>]
    /\ UNCHANGED <<session, highlights>>
    /\ UNCHANGED sidenote

\* The timer fires: detectMarkdownHighlights(editor, view) reads view.file
\* and editor.getValue() now.
TimeoutFires ==
    /\ timeout # <<>>
    /\ LET view == timeout[1]
       IN  IF view.file = Null
           THEN /\ last' = [op |-> "timeout", path |-> Null]
                /\ UNCHANGED <<highlights, unscanned>>
           ELSE IF "value" \in DOMAIN view
           THEN detectAndStoreMarkdownHighlights(view.value, view.file, view.mtime)
           ELSE detectAndStoreMarkdownHighlights(vault[view.file], view.file,
                                                 mtime[view.file])
    /\ timeout' = Tail(timeout)
    /\ UNCHANGED <<session, vault, mtime, clock>>
    /\ UNCHANGED sidenote

\* createHighlight(editor) with the selection [from, to) of the active file
\* path; replaceSelection then raises the editor-change event.
createHighlight(path, from, to) ==
    /\ path \in DOMAIN vault
    /\ 0 <= from /\ from < to /\ to <= Len(vault[path])
    /\ clock <= MaxEdits
    /\ LET content == vault[path]
           selection == substring(content, from, to)
           highlight == [id |-> generateId(allIds),
                         text |-> selection,
                         tags |-> <<>>,
                         line |-> lineNumberOf(content, from),
                         startOffset |-> from,
                         endOffset |-> to,
                         filePath |-> path,
                         createdAt |-> TimeOf(clock + 1)]
       IN  /\ highlights' = mapSet(highlights, path, Append(getHighlights(path), highlight))
           /\ vault' = [vault EXCEPT ![path] = replaceSelection(content, from, to)]
           /\ last' = [op |-> "createHighlight", path |-> path, id |-> highlight.id,
                       text |-> selection]
    /\ clock' = clock + 1
    /\ mtime' = [mtime EXCEPT ![path] = TimeOf(clock + 1)]
    /\ timeout' = debounceDetectMarkdownHighlights(timeout, [file |-> path])
    /\ unscanned' = unscanned \cup {path}
    /\ UNCHANGED session
    /\ UNCHANGED sidenote

\* The file-open event: loadHighlightsFromFile(file).
FileOpen(path) ==
    /\ path \in DOMAIN vault
    /\ IF ~shouldProcessFile(path) \/ isExcalidrawFile(path, vault[path])
       THEN /\ highlights' = mapDelete(highlights, path)
            /\ last' = [op |-> "file-open", path |-> path]
            /\ UNCHANGED unscanned
       ELSE detectAndStoreMarkdownHighlights(vault[path], path, mtime[path])
    /\ UNCHANGED <<session, vault, mtime, clock, timeout>>
    /\ UNCHANGED sidenote

continueOnErrorCleared(map) == <<>>

\* catch (error) { }: the map after vault.read has thrown in
\* handleFileCreate.
continueOnError(map) == map

\* The vault create event: handleFileCreate(file); a failed read is caught.
VaultCreate(path, text, readFails) ==
    /\ path \in Paths \ DOMAIN vault
    /\ Cardinality(DOMAIN vault) < Cardinality(session.files)
    /\ text \in session.docs
    /\ clock <= MaxEdits
    /\ shouldProcessFile(path)
    /\ vault' = mapSet(vault, path, text)
    /\ clock' = clock + 1
    /\ mtime' = mapSet(mtime, path, TimeOf(clock + 1))
    /\ IF readFails
       THEN /\ last' = [op |-> "create", path |-> path, before |-> highlights]
            /\ highlights' = continueOnError(highlights)
            /\ UNCHANGED unscanned
       ELSE detectAndStoreMarkdownHighlights(text, path, TimeOf(clock + 1))
    /\ UNCHANGED <<session, timeout>>
    /\ UNCHANGED sidenote

updatedHighlightsUnchanged(oldHighlights, path) == oldHighlights

\* oldHighlights.map(highlight => ({...highlight, filePath: file.path}))
updatedHighlights(oldHighlights, path) ==
    [k \in 1..Len(oldHighlights) |-> [oldHighlights[k] EXCEPT !.filePath = path]]

\* The vault rename event: handleFileRename(file, oldPath).  The view of the
\* file keeps its TFile, whose path is now the new one.
VaultRename(oldPath, path) ==
    /\ oldPath \in DOMAIN vault
    /\ path \in Paths \ DOMAIN vault
    /\ shouldProcessFile(path)
    /\ vault' = mapSet(mapDelete(vault, oldPath), path, vault[oldPath])
    /\ mtime' = mapSet(mapDelete(mtime, oldPath), path, mtime[oldPath])
    /\ timeout' = [k \in 1..Len(timeout) |->
                       IF timeout[k] = [file |-> oldPath] THEN [file |-> path]
                       ELSE timeout[k]]
    /\ LET moves == oldPath \in DOMAIN highlights /\ Len(highlights[oldPath]) > 0
           oldHighlights == highlights[oldPath]
       IN  /\ highlights' = IF moves
                            THEN mapSet(mapDelete(highlights, oldPath), path,
                                        updatedHighlights(oldHighlights, path))
                            ELSE highlights
           /\ last' = [op |-> "rename", path |-> path, oldPath |-> oldPath,
                       saved |-> moves, before |-> highlights]
    /\ unscanned' = IF oldPath \in unscanned
                    THEN (unscanned \ {oldPath}) \cup {path} ELSE unscanned
    /\ UNCHANGED <<session, clock>>
    /\ UNCHANGED sidenote

\* The vault delete event: handleFileDelete(file).  The handler leaves the
\* timer alone; whether the host has closed the view of the deleted file by
\* the time the timer fires (view.file null) or the view still holds the
\* file and its last text is the host's choice.
VaultDelete(path, viewStays) ==
    /\ path \in DOMAIN vault
    /\ shouldProcessFile(path)
    /\ vault' = mapDelete(vault, path)
    /\ mtime' = mapDelete(mtime, path)
    /\ timeout' = [k \in 1..Len(timeout) |->
                       IF timeout[k] # [file |-> path] THEN timeout[k]
                       ELSE IF viewStays
                       THEN [file |-> path, value |-> vault[path], mtime |-> mtime[path]]
                       ELSE [file |-> Null]]
    /\ highlights' = IF path \in DOMAIN highlights THEN mapDelete(highlights, path)
                     ELSE highlights
    /\ unscanned' = unscanned \ {path}
    /\ last' = [op |-> "delete", path |-> path, saved |-> path \in DOMAIN highlights,
                before |-> highlights]
    /\ UNCHANGED <<session, clock>>
    /\ UNCHANGED sidenote

Next ==
    \/ \E path \in SessionPaths : \E text \in Docs : EditorChange(path, text)
    \/ TimeoutFires
    \/ \E path \in SessionPaths : \E s \in Selections :
           createHighlight(path, s[1], s[2])
    \/ \E path \in SessionPaths : FileOpen(path)
    \/ \E path \in SessionPaths : \E text \in Docs : \E readFails \in BOOLEAN :
           VaultCreate(path, text, readFails)
    \/ \E oldPath \in SessionPaths : \E path \in SessionPaths : VaultRename(oldPath, path)
    \/ \E path \in SessionPaths : \E viewStays \in BOOLEAN : VaultDelete(path, viewStays)

Spec == Init /\ [][Next]_vars

\* ------------------------------------------------------------------------
\* The plugin loaded over a file that already has text: the marker scanner
\* on the texts of ScanDocs, through the file-open, rename and delete
\* handlers.
\* ------------------------------------------------------------------------

NL == "\n"

\* A highlight and a comment whose body is one space.
HBlank == Highlighted(<<" ">>)

CBlank == Commented(<<" ">>)

\* The inline footnote ^[n], the reference [^k] and the definition [^k]: d.
InlineN == <<"^", "[", "n", "]">>

RefK == <<"[", "^", "k", "]">>

DefK == <<"[", "^", "k", "]", ":", " ", "d">>

\* A highlight followed by a comment: directly, after a newline, after a
\* blank line, after an inline footnote, after plain text, and the same
\* with a blank body on either side.
AdjacencyDocs ==
    {HA \o CB,
     HA \o <<NL>> \o CB,
     HA \o <<NL, NL>> \o CB,
     HA \o <<NL, " ", NL>> \o CB,
     HA \o InlineN \o CB,
     HA \o InlineN \o <<NL, NL>> \o CB,
     HA \o <<NL, NL>> \o InlineN \o CB,
     HA \o <<"x">> \o CB,
     HA \o <<"x", NL, NL>> \o CB,
     HBlank \o CB,
     HBlank \o <<NL, NL>> \o CB,
     HA \o CBlank,
     HA \o <<NL, NL>> \o CBlank}

\* Inline code, a fenced block and a link.
InlineCode == <<BACKTICK, "x", "x", BACKTICK>>

Fence == <<BACKTICK, BACKTICK, BACKTICK, NL, "x", NL, BACKTICK, BACKTICK, BACKTICK>>

Link == <<"[", "a", "]", "(", "b", "b", ")">>

\* The text with the marker put in at offset pos.
InsertAt(text, marker, pos) ==
    SubSeq(text, 1, pos) \o marker \o SubSeq(text, pos + 1, Len(text))

InsertedDocs(text, marker) == {InsertAt(text, marker, pos) : pos \in 0..Len(text)}

\* A highlight directly before a link, one in the URL of the link and one
\* in inline code.
ThreeRegions == HA \o InsertAt(Link, HA, 5) \o <<" ">> \o InsertAt(InlineCode, HA, 1)

\* A highlight at every place in and around inline code, a fenced block and
\* a link, a comment at every place in and around a link, and highlights
\* that hold inline code or a link, or close inside the URL of a link.
RegionDocs ==
    InsertedDocs(InlineCode, HA) \cup InsertedDocs(Fence, HA)
    \cup InsertedDocs(Link, HA) \cup InsertedDocs(Link, CA)
    \cup {Highlighted(<<"a">> \o InlineCode),
          Highlighted(<<"a">> \o Link),
          <<"=", "=", "a">> \o InsertAt(Link, <<"=", "=">>, 5),
          ThreeRegions}

\* A highlight and a comment alone and with one more delimiter character
\* before, after, and on both sides.
Strict == <<"=">> \o HA \o <<"=">>

DelimiterDocs ==
    {HA, <<"=">> \o HA, HA \o <<"=">>, Strict, <<"x", "=">> \o HA,
     CA, <<"%">> \o CA, CA \o <<"%">>, <<"%">> \o CA \o <<"%">>}

\* A highlight followed by an inline footnote, a reference and a comment in
\* different orders, with the definition of the reference after and before
\* the highlight.
RefInlineComment == HA \o RefK \o InlineN \o CB \o <<NL>> \o DefK

FootnoteDocs ==
    {HA \o InlineN \o RefK \o <<NL>> \o DefK,
     DefK \o <<NL>> \o HA \o InlineN \o RefK,
     DefK \o <<NL>> \o HA \o RefK \o InlineN,
     RefInlineComment,
     DefK \o <<NL>> \o HA \o InlineN \o CB \o RefK,
     HA \o RefK \o InlineN}

\* A reference without a definition, a reference whose definition has only
\* whitespace for content, and that definition.
RefY == <<"[", "^", "y", "]">>

RefC == <<"[", "^", "c", "]">>

DefCBlank == <<"[", "^", "c", "]", ":", " ">>

\* A highlight followed by all three kinds of reference.
ThreeRefs == HA \o RefY \o RefC \o RefK \o <<NL>> \o DefK \o <<NL>> \o DefCBlank

\* A highlight followed by a chain that holds a reference that resolves to
\* nothing, before a reference that resolves, and the same with text that
\* breaks the chain.
DroppedRefDocs ==
    {HA \o RefY \o RefK \o <<NL>> \o DefK,
     HA \o RefC \o RefK \o <<NL>> \o DefK \o <<NL>> \o DefCBlank,
     ThreeRefs,
     HA \o RefY \o InlineN \o RefK \o <<NL>> \o DefK,
     HA \o RefY \o <<" ">> \o RefK \o CB \o <<NL>> \o DefK,
     HA \o RefY \o <<"x">> \o RefK \o <<NL>> \o DefK,
     HA \o RefY}

\* A highlight that closes inside a comment, and a highlight that holds a
\* comment.
OverlapDocs ==
    {<<"=", "=", "a", "%", "%", "b", "=", "=", "c", "%", "%">>,
     Highlighted(<<"a", " ">> \o CA \o <<" ", "c">>)}

\* The modulus of the offset a new record adds to the modify time.
TimestampSpread == 1000

\* Two highlights whose offsets differ by the modulus, and three of which
\* the first and the last have offsets that differ by the modulus.
FarApartDocs ==
    {HA \o Pad(TimestampSpread - Len(HA)) \o HA,
     HA \o Pad(ShortPad) \o HA \o Pad(TimestampSpread - 2 * Len(HA) - ShortPad) \o HA}

ScanDocs ==
    AdjacencyDocs \cup RegionDocs \cup DelimiterDocs \cup FootnoteDocs \cup FarApartDocs
    \cup DroppedRefDocs \cup OverlapDocs

ScanInit ==
    /\ session = [files |-> {"a.md"}, docs |-> ScanDocs]
    /\ vault \in [session.files -> ScanDocs]
    /\ mtime = [p \in session.files |-> TimeOf(1)]
    /\ clock = 1
    /\ highlights = <<>>
    /\ timeout = <<>>
    /\ unscanned = {}
    /\ last = [op |-> "onload"]
    /\ sidenote = SidenoteLoaded

ScanNext ==
    \/ \E path \in SessionPaths : FileOpen(path)
    \/ \E oldPath \in SessionPaths : \E path \in SessionPaths : VaultRename(oldPath, path)
    \/ \E path \in SessionPaths : \E viewStays \in BOOLEAN : VaultDelete(path, viewStays)

ScanSpec == ScanInit /\ [][ScanNext]_vars

\* ------------------------------------------------------------------------
\* The plugin loaded over a file of fence lines, inline code, links and
\* highlights: getCodeBlockRanges and getMarkdownLinkRanges as the scan of
\* the file-open handler calls them.
\* ------------------------------------------------------------------------

\* The most fence and span lines of such a file.
MaxLines == 4

Ticks == <<BACKTICK, BACKTICK, BACKTICK>>

Waves == <<"~", "~", "~">>

\* A line of two spans of inline code and two links.
Spans == InlineCode \o Link \o InlineCode \o Link

\* A fence line with an info string.
WavesInfo == Waves \o <<"x">>

\* The lines: the two fence markers and the spans.
FenceLines == {Ticks, WavesInfo, Spans}

\* lines.join('\n')
RECURSIVE joinLines(_)
joinLines(lines) ==
    IF Len(lines) = 1 THEN lines[1]
    ELSE lines[1] \o <<NL>> \o joinLines(Tail(lines))

\* The texts: up to MaxLines lines, alone or followed by a line with a
\* highlight.
FenceDocs ==
    LET texts == UNION {{joinLines(lines) : lines \in [1..n -> FenceLines]} :
                           n \in 1..MaxLines}
    IN  texts \cup {text \o <<NL>> \o HA : text \in texts}

FenceInit ==
    /\ session = [files |-> {"a.md"}, docs |-> FenceDocs]
    /\ vault \in [session.files -> FenceDocs]
    /\ mtime = [p \in session.files |-> TimeOf(1)]
    /\ clock = 1
    /\ highlights = <<>>
    /\ timeout = <<>>
    /\ unscanned = {}
    /\ last = [op |-> "onload"]
    /\ sidenote = SidenoteLoaded

FenceSpec == FenceInit /\ [][ScanNext]_vars

\* ------------------------------------------------------------------------
\* The plugin loaded over two files with text, which are scanned, given
\* highlights, deleted, and renamed to each of the three paths.
\* ------------------------------------------------------------------------

FrameInit ==
    /\ session = [files |-> SessionPaths, docs |-> PlainDocs]
    /\ vault \in [session.files -> PlainDocs]
    /\ mtime = [p \in session.files |-> TimeOf(1)]
    /\ clock = 1
    /\ highlights = <<>>
    /\ timeout = <<>>
    /\ unscanned = {}
    /\ last = [op |-> "onload"]
    /\ sidenote = SidenoteLoaded

FrameNext ==
    \/ \E path \in Paths : FileOpen(path)
    \* The selection is the first character of the file.
    \/ \E path \in Paths : createHighlight(path, 0, 1)
    \/ TimeoutFires
    \/ \E oldPath \in Paths : \E path \in Paths : VaultRename(oldPath, path)
    \/ \E path \in Paths : \E viewStays \in BOOLEAN : VaultDelete(path, viewStays)

FrameSpec == FrameInit /\ [][FrameNext]_vars

\* ------------------------------------------------------------------------
\* SidenotePlugin: the window resize handler and its two throttled
\* schedulers, which share resizeThrottleTime.
\* ------------------------------------------------------------------------

\* The number of resize events and waits of a behaviour.
MaxEvents == 4

\* The times that pass between two events: a millisecond, one millisecond
\* less than the interval, and the interval.
Delays == {1, minInterval - 1, minInterval}

\* scheduleLayoutThrottled(minInterval) with Date.now() = now:
\* scheduleLayout cancels the frame requested and requests one.
scheduleLayoutThrottled(plugin, now) ==
    IF now - plugin.resizeThrottleTime >= minInterval
    THEN [plugin EXCEPT !.resizeThrottleTime = now, !.rafId = TRUE]
    ELSE plugin

\* scheduleReadingModeLayoutThrottled(minInterval) with Date.now() = now:
\* scheduleReadingModeLayout requests one more frame.
scheduleReadingModeLayoutThrottled(plugin, now) ==
    IF now - plugin.resizeThrottleTime >= minInterval
    THEN [plugin EXCEPT !.readingFrames = @ + 1]
    ELSE plugin

\* Time passes.
Elapse(delay) ==
    /\ sidenote.events < MaxEvents
    /\ sidenote' = [sidenote EXCEPT !.now = @ + delay, !.events = @ + 1]
    /\ UNCHANGED <<session, vault, mtime, clock, highlights, timeout, unscanned, last>>

\* The window resize event: both throttled schedulers, the second reading
\* the time gap milliseconds after the first (none, or one).
WindowResize(gap) ==
    /\ sidenote.events < MaxEvents
    /\ LET first == scheduleLayoutThrottled(sidenote, sidenote.now)
           second == scheduleReadingModeLayoutThrottled(first, sidenote.now + gap)
       IN  /\ sidenote' = [second EXCEPT !.now = sidenote.now + gap, !.events = @ + 1]
           /\ last' = [op |-> "resize-window",
                       at |-> sidenote.now,
                       throttleTime |-> sidenote.resizeThrottleTime,
                       layout |-> first.resizeThrottleTime # sidenote.resizeThrottleTime,
                       readingLayout |-> second.readingFrames # first.readingFrames]
    /\ UNCHANGED <<session, vault, mtime, clock, highlights, timeout, unscanned>>

\* The animation frame: the layouts requested run.
AnimationFrame ==
    /\ sidenote.rafId \/ sidenote.readingFrames > 0
    /\ sidenote' = [sidenote EXCEPT !.rafId = FALSE, !.readingFrames = 0]
    /\ UNCHANGED <<session, vault, mtime, clock, highlights, timeout, unscanned, last>>

ResizeNext ==
    \/ \E delay \in Delays : Elapse(delay)
    \/ \E gap \in {0, 1} : WindowResize(gap)
    \/ AnimationFrame

ResizeSpec == Init /\ [][ResizeNext]_vars

\* ------------------------------------------------------------------------
\* The plugin loaded over stored highlights: fixDuplicateTimestamps, which
\* runs once when the layout is ready.
\* ------------------------------------------------------------------------

\* The longest stored list.
MaxStored == 3

\* The createdAt values of stored records.
StoredTimes == {TimeOf(1) + d : d \in 0..(MaxStored - 1)}

\* The k-th stored record of a file: a highlight a scan has written.
storedHighlight(path, k, startOffset, createdAt) ==
    [newHighlight(k, [text |-> <<"a">>,
                     startOffset |-> startOffset,
                     endOffset |-> startOffset + Len(HA),
                     line |-> 0,
                     footnoteContents |-> <<>>,
                     footnoteCount |-> 0,
                     isNativeComment |-> FALSE,
                     type |-> "highlight"],
                 path, 0)
     EXCEPT !.createdAt = createdAt]

\* The stored lists of a file: up to MaxStored records in the order of
\* their offsets or against it, with any of the stored times.
StoredLists(path) ==
    UNION {{[k \in 1..n |->
                storedHighlight(path, k,
                    (IF ascending THEN k - 1 ELSE n - k) * 2 * ShortPad, times[k])] :
               times \in [1..n -> StoredTimes], ascending \in BOOLEAN} :
           n \in 0..MaxStored}

\* The same, with the records that share a timestamp left in list order.
fixedTimestampUnsorted(list, k) ==
    IF "createdAt" \notin DOMAIN list[k] \/ list[k].createdAt = 0 THEN 0
    ELSE list[k].createdAt
         + Cardinality({j \in 1..(k - 1) :
               /\ "createdAt" \in DOMAIN list[j]
               /\ list[j].createdAt = list[k].createdAt})

\* The new createdAt of the k-th record of a list: the records that share a
\* timestamp are sorted by startOffset and the one at index i > 0 gets the
\* timestamp plus i; a record without createdAt is left alone.
fixedTimestamp(list, k) ==
    IF "createdAt" \notin DOMAIN list[k] \/ list[k].createdAt = 0 THEN 0
    ELSE LET duplicates == {j \in 1..Len(list) :
                               /\ "createdAt" \in DOMAIN list[j]
                               /\ list[j].createdAt = list[k].createdAt}
             index == Cardinality({j \in duplicates :
                          \/ list[j].startOffset < list[k].startOffset
                          \/ list[j].startOffset = list[k].startOffset /\ j < k})
         IN  list[k].createdAt + index

fixDuplicateTimestamps(map) ==
    [p \in DOMAIN map |->
        [k \in 1..Len(map[p]) |->
            IF fixedTimestamp(map[p], k) = 0 THEN map[p][k]
            ELSE [map[p][k] EXCEPT !.createdAt = fixedTimestamp(map[p], k)]]]

\* The flag hasChanges of fixDuplicateTimestamps: set when a group of more
\* than one record gives the record at an index above 0 a new timestamp.
hasChangesOfFix(map) ==
    \E p \in DOMAIN map :
        \E j, k \in 1..Len(map[p]) :
            /\ j # k
            /\ "createdAt" \in DOMAIN map[p][j] /\ map[p][j].createdAt # 0
            /\ "createdAt" \in DOMAIN map[p][k]
            /\ map[p][j].createdAt = map[p][k].createdAt

LoadInit ==
    /\ session = [files |-> {"a.md"}, docs |-> {}]
    /\ vault = [p \in session.files |-> <<>>]
    /\ mtime = [p \in session.files |-> TimeOf(1)]
    /\ clock = 1
    /\ highlights \in [session.files -> StoredLists("a.md")]
    /\ timeout = <<>>
    /\ unscanned = {}
    /\ last = [op |-> "onload"]
    /\ sidenote = SidenoteLoaded

\* workspace.onLayoutReady: fixDuplicateTimestamps, which saves when it
\* changed a timestamp.
LayoutReady ==
    /\ last.op = "onload"
    /\ highlights' = fixDuplicateTimestamps(highlights)
    /\ last' = [op |-> "layout-ready", before |-> highlights,
                saved |-> hasChangesOfFix(highlights)]
    /\ UNCHANGED <<session, vault, mtime, clock, timeout, unscanned>>
    /\ UNCHANGED sidenote

LoadNext == LayoutReady

LoadSpec == LoadInit /\ [][LoadNext]_vars

\* ------------------------------------------------------------------------
\* The plugin loaded over the stored records of a file that has text: the
\* records of settings.highlights carry the tags, the color and the fields
\* of the scan that wrote them, and createdAt only if the version that
\* wrote them had it.
\* ------------------------------------------------------------------------

\* A record of settings.highlights: the text "a" at startOffset, with the
\* line and the footnotes of an earlier text of the file.
storedRecord(id, startOffset, isComment, tags, color, createdAt) ==
    [id |-> id,
     text |-> <<"a">>,
     tags |-> tags,
     line |-> 1,
     startOffset |-> startOffset,
     endOffset |-> startOffset + Len(HA),
     filePath |-> "a.md",
     footnoteCount |-> IF isComment THEN 1 ELSE 2,
     footnoteContents |-> IF isComment THEN <<<<"a">>>> ELSE <<<<"o">>, <<"p">>>>,
     isNativeComment |-> isComment,
     type |-> IF isComment THEN "comment" ELSE "highlight"]
    @@ (IF color = Null THEN <<>> ELSE "color" :> color)
    @@ (IF createdAt = 0 THEN <<>> ELSE "createdAt" :> createdAt)

\* The stored records of one id: at the start of the file or a short run
\* into it, of either kind, with or without a tag, a color and a createdAt.
StoredRecords(id) ==
    {storedRecord(id, startOffset, isComment, tags, color, createdAt) :
        startOffset \in {0, ShortPad}, isComment \in BOOLEAN,
        tags \in {<<>>, <<"t">>}, color \in {Null, "yellow"},
        createdAt \in {0, TimeOf(1)}}

\* The stored lists of the file: none, one or two records.
ReloadLists ==
    {<<>>} \cup {<<h>> : h \in StoredRecords(1)}
    \cup {<<hs[1], hs[2]>> :
             hs \in {x \in StoredRecords(1) \X StoredRecords(2) :
                        x[1].startOffset # x[2].startOffset}}

\* The texts of the file: the highlight and the comment the records were
\* written for, in place, moved, doubled, and with a comment to collect.
ReloadDocs ==
    {HA, Pad(ShortPad) \o HA, HA \o Pad(ShortPad) \o HA, CA, <<NL, NL>> \o HA \o CB}

\* The plugin is loaded in a later session than the one that wrote the
\* records.
ReloadInit ==
    /\ session = [files |-> {"a.md"}, docs |-> ReloadDocs]
    /\ vault \in [session.files -> ReloadDocs]
    /\ mtime = [p \in session.files |-> TimeOf(1)]
    /\ clock = 2
    /\ highlights \in [session.files -> ReloadLists]
    /\ timeout = <<>>
    /\ unscanned = {}
    /\ last = [op |-> "onload"]
    /\ sidenote = SidenoteLoaded

ReloadSpec == ReloadInit /\ [][ScanNext]_vars

\* ------------------------------------------------------------------------
\* Properties of the reconciliation pass.  In the state after a pass,
\* last.existing is the stored list the pass read, last.newHighlights the
\* list it built, and newHighlights[k] the record of the k-th occurrence.
\* ------------------------------------------------------------------------

AfterScan == last.op = "scan"

lastOccurrences == occurrencesOf(last.content)

idsOf(list) == {list[k].id : k \in 1..Len(list)}

\* The ids of the stored records that the occurrences before the k-th took.
consumedBefore(k) ==
    {last.newHighlights[i].id : i \in 1..(k - 1)} \cap idsOf(last.existing)

sameTextAndKind(h, occ) ==
    /\ h.text = occ.text
    /\ "isNativeComment" \in DOMAIN h /\ h.isNativeComment = occ.isNativeComment

isExactFor(h, occ) ==
    /\ sameTextAndKind(h, occ)
    /\ h.startOffset = occ.startOffset /\ h.endOffset = occ.endOffset

distance(h, occ) == abs(h.startOffset - occ.startOffset)

\* The k-th occurrence carries the id and createdAt of the j-th stored record.
keepsIdentity(k, j) ==
    /\ last.newHighlights[k].id = last.existing[j].id
    /\ last.newHighlights[k].createdAt = last.existing[j].createdAt

\* The k-th occurrence received a new id and the synthesized createdAt.
isSynthesized(k) ==
    /\ last.newHighlights[k].id \notin idsOf(last.existing)
    /\ last.newHighlights[k].createdAt
           = last.mtime + (lastOccurrences[k].startOffset % 1000)

recordsWithText(text) == {j \in 1..Len(last.existing) : last.existing[j].text = text}

occurrencesWithText(text) ==
    {k \in 1..Len(lastOccurrences) : lastOccurrences[k].text = text}

\* C1: a scan that directly follows a scan of the same file with the same
\* text leaves the normalized projection of the stored list as the first
\* scan left it, makes no new id and does not save.
C1_RescanIsIdempotent ==
    (AfterScan /\ last.rescan) =>
        /\ normalizedJSON(getHighlights(last.path)) = normalizedJSON(last.existing)
        /\ normalizedJSON(last.newHighlights) = normalizedJSON(last.existing)
        /\ idsOf(last.newHighlights) \subseteq idsOf(last.existing)
        /\ ~last.saved

\* A second scan in a row of a text with two occurrences.
C1_Witness ==
    /\ AfterScan /\ last.rescan
    /\ Len(last.newHighlights) >= 2
    /\ ~last.saved

\* C2 as stated: every occurrence for which the stored list holds a record
\* with the same text, offsets and kind carries that record's id and
\* createdAt, whatever else the scan contains.
C2_ExactRecordAlwaysKept ==
    AfterScan =>
        \A k \in 1..Len(lastOccurrences) : \A j \in 1..Len(last.existing) :
            isExactFor(last.existing[j], lastOccurrences[k]) => keepsIdentity(k, j)

\* C2, amended: every occurrence for which the stored list holds a record
\* with the same text, offsets and kind carries that record's id and
\* createdAt, unless an earlier occurrence of the pass has taken the record.
C2_ExactRecordKeptUnlessTaken ==
    AfterScan =>
        \A k \in 1..Len(lastOccurrences) : \A j \in 1..Len(last.existing) :
            (/\ isExactFor(last.existing[j], lastOccurrences[k])
             /\ last.existing[j].id \notin consumedBefore(k))
            => keepsIdentity(k, j)

\* The second occurrence of a pass over two stored records keeps the record
\* that stands at its place.
C2_Witness ==
    /\ AfterScan
    /\ Len(last.existing) >= 2 /\ Len(lastOccurrences) >= 2
    /\ \E j \in 1..Len(last.existing) :
           /\ isExactFor(last.existing[j], lastOccurrences[2])
           /\ last.existing[j].id \notin consumedBefore(2)
           /\ keepsIdentity(2, j)

twoAndTwo(j1, j2, k1, k2) ==
    /\ j1 # j2 /\ k1 # k2
    /\ recordsWithText(lastOccurrences[k1].text) = {j1, j2}
    /\ occurrencesWithText(lastOccurrences[k1].text) = {k1, k2}
    /\ sameTextAndKind(last.existing[j2], lastOccurrences[k2])
    /\ lastOccurrences[k1].isNativeComment = lastOccurrences[k2].isNativeComment
    /\ isExactFor(last.existing[j1], lastOccurrences[k1])

\* What C4 promises: k1 keeps the id of j1, k2 is new, and the pass built a
\* record for every occurrence.
firstKeptSecondNew(j1, k1, k2) ==
    /\ last.newHighlights[k1].id = last.existing[j1].id
    /\ isSynthesized(k2)
    /\ Len(last.newHighlights) = Len(lastOccurrences)

\* C4 as stated: of two occurrences of a text with two stored records, one
\* exactly at a stored record and the other more than 50 characters from
\* the remaining record, the first keeps its id and the second is new.
C4_FarFromRemainingRecord ==
    AfterScan =>
        \A j1, j2 \in 1..Len(last.existing) : \A k1, k2 \in 1..Len(lastOccurrences) :
            (/\ twoAndTwo(j1, j2, k1, k2)
             /\ distance(last.existing[j2], lastOccurrences[k2]) > FuzzyWindow)
            => firstKeptSecondNew(j1, k1, k2)

\* C4, amended: the same when the other occurrence is more than 50
\* characters from both stored records.
C4_FarFromBothRecords ==
    AfterScan =>
        \A j1, j2 \in 1..Len(last.existing) : \A k1, k2 \in 1..Len(lastOccurrences) :
            (/\ twoAndTwo(j1, j2, k1, k2)
             /\ distance(last.existing[j2], lastOccurrences[k2]) > FuzzyWindow
             /\ distance(last.existing[j1], lastOccurrences[k2]) > FuzzyWindow)
            => firstKeptSecondNew(j1, k1, k2)

\* One occurrence at its stored place, the other far from both records and
\* given a new id.
C4_Witness ==
    /\ AfterScan
    /\ \E j1, j2 \in 1..Len(last.existing) : \E k1, k2 \in 1..Len(lastOccurrences) :
           /\ twoAndTwo(j1, j2, k1, k2)
           /\ distance(last.existing[j2], lastOccurrences[k2]) > FuzzyWindow
           /\ distance(last.existing[j1], lastOccurrences[k2]) > FuzzyWindow
           /\ firstKeptSecondNew(j1, k1, k2)

\* The stored records of the text and kind of the k-th occurrence: all of
\* them, those not taken before the k-th, and of these the ones within the
\* window (a record at the exact place is within the window).
alike(k) ==
    {j \in 1..Len(last.existing) : sameTextAndKind(last.existing[j], lastOccurrences[k])}

alikeUntaken(k) == {j \in alike(k) : last.existing[j].id \notin consumedBefore(k)}

alikeNear(k) ==
    {j \in alikeUntaken(k) : distance(last.existing[j], lastOccurrences[k]) <= FuzzyWindow}

\* C5 as stated: an occurrence that fails the first two tiers is matched
\* whenever exactly one record of its text and kind has not been taken yet.
C5_OnlyUntakenRecordMatches ==
    AfterScan =>
        \A k \in 1..Len(lastOccurrences) :
            (alikeNear(k) = {} /\ Cardinality(alikeUntaken(k)) = 1)
            => \E j \in alikeUntaken(k) : keepsIdentity(k, j)

\* C5, amended: an occurrence that fails the first two tiers is matched
\* whenever the stored list holds exactly one record of its text and kind,
\* taken or not, and that record has not been taken.
C5_OnlyRecordMatches ==
    AfterScan =>
        \A k \in 1..Len(lastOccurrences) :
            (/\ alikeNear(k) = {}
             /\ Cardinality(alike(k)) = 1
             /\ alikeUntaken(k) = alike(k))
            => \E j \in alike(k) : keepsIdentity(k, j)

\* A record found again by its text alone, more than 50 characters away.
C5_Witness ==
    /\ AfterScan
    /\ \E k \in 1..Len(lastOccurrences) :
           /\ alikeNear(k) = {}
           /\ Cardinality(alike(k)) = 1
           /\ \E j \in alike(k) : keepsIdentity(k, j)

\* C6: no two records of the list of one file share an id.
C6_IdsUniquePerFile ==
    \A p \in DOMAIN highlights :
        \A i, j \in 1..Len(highlights[p]) :
            i # j => highlights[p][i].id # highlights[p][j].id

\* A stored list of two records of the same text, one kept from the list
\* before and one new.
C6_Witness ==
    /\ AfterScan /\ last.saved
    /\ Len(last.newHighlights) = 2
    /\ last.newHighlights[1].text = last.newHighlights[2].text
    /\ last.newHighlights[1].id \in idsOf(last.existing)
    /\ last.newHighlights[2].id \notin idsOf(last.existing)
    /\ getHighlights(last.path) = last.newHighlights

\* C7: the record createHighlight pushed (the one without isNativeComment)
\* keeps its id when the scan finds its text as a highlight at its start
\* offset.
C7_CreatedHighlightKeepsId ==
    AfterScan =>
        \A k \in 1..Len(lastOccurrences) : \A j \in 1..Len(last.existing) :
            (/\ "isNativeComment" \notin DOMAIN last.existing[j]
             /\ lastOccurrences[k].type = "highlight"
             /\ lastOccurrences[k].text = last.existing[j].text
             /\ lastOccurrences[k].startOffset = last.existing[j].startOffset)
            => last.newHighlights[k].id = last.existing[j].id

\* The text, start and end of every record of a list.
placesOf(list) ==
    [k \in 1..Len(list) |->
        [text |-> list[k].text, startOffset |-> list[k].startOffset,
         endOffset |-> list[k].endOffset]]

\* C8: when no scan is pending, the stored list of every file edited in an
\* editor is the result of scanning its text.
C8_EditedFilesAreScanned ==
    timeout = <<>> =>
        \A p \in unscanned \cap DOMAIN vault :
            placesOf(getHighlights(p)) = placesOf(occurrencesOf(vault[p]))

\* C9: a path that has no file and no entry gets no entry as long as it has
\* no file.
C9_NoEntryWithoutFile ==
    [][\A p \in Paths :
           (p \notin DOMAIN vault /\ p \notin DOMAIN vault' /\ p \notin DOMAIN highlights)
           => p \notin DOMAIN highlights']_vars

\* C10: a pass replaces the list of the file and saves exactly when the
\* normalized projections of the stored and the reconciled list differ, and
\* otherwise leaves the map as it was.
C10_StoresIffProjectionDiffers ==
    AfterScan =>
        LET differs == normalizedJSON(last.existing) # normalizedJSON(last.newHighlights)
        IN  /\ last.saved <=> differs
            /\ differs => highlights = mapSet(last.before, last.path, last.newHighlights)
            /\ ~differs => highlights = last.before

\* A pass over a stored list that it leaves alone.
C10_Witness ==
    /\ AfterScan
    /\ last.existing # <<>>
    /\ normalizedJSON(last.existing) = normalizedJSON(last.newHighlights)
    /\ ~last.saved /\ highlights = last.before

\* ------------------------------------------------------------------------
\* Properties of the marker scanner.  In the state after a pass,
\* lastMatches are the matches of both patterns that passed the filters, in
\* the order of their start, and last.newHighlights the records.
\* ------------------------------------------------------------------------

lastMatches == allMatchesOf(last.content)

\* The records of the pass that start at the given offset.
recordsAt(index) ==
    {k \in 1..Len(last.newHighlights) : last.newHighlights[k].startOffset = index}

\* Two newlines with nothing but whitespace between them.
containsBlankLine(s) ==
    \E a, b \in 1..Len(s) :
        /\ a < b /\ s[a] = NL /\ s[b] = NL
        /\ \A k \in (a + 1)..(b - 1) : isSpace(s[k])

\* The text between the i-th match and the next one.
between(i) == substring(last.content, lastMatches[i].end, lastMatches[i + 1].index)

\* The i-th match is a highlight and the next one a comment.
commentFollows(i) ==
    /\ i < Len(lastMatches)
    /\ lastMatches[i].type = "highlight" /\ lastMatches[i + 1].type = "comment"

\* Only footnote syntax and whitespace, and no blank line, between the i-th
\* match and the next.
onlyFootnotesBetween(i) ==
    /\ isBlank(substring(between(i), calculateFootnoteLength(between(i)), Len(between(i))))
    /\ ~containsBlankLine(between(i))

\* The pair has one record, the highlight, with the trimmed text of the
\* comment among its footnotes.
mergedPair(i) ==
    /\ recordsAt(lastMatches[i + 1].index) = {}
    /\ \E k \in 1..Len(last.newHighlights) :
           /\ recordsAt(lastMatches[i].index) = {k}
           /\ last.newHighlights[k].isNativeComment = FALSE
           /\ \E f \in 1..Len(last.newHighlights[k].footnoteContents) :
                  last.newHighlights[k].footnoteContents[f] = trim(lastMatches[i + 1].text)

\* C11: a highlight match followed by a comment match, with only footnote
\* syntax and whitespace and no blank line between them, yields one
\* record, the highlight with the comment's trimmed text as a footnote.
C11_AdjacentCommentMerged ==
    AfterScan =>
        \A i \in 1..Len(lastMatches) :
            (commentFollows(i) /\ onlyFootnotesBetween(i)) => mergedPair(i)

\* The part of the text between the i-th match and the next that the
\* adjacency test examines: what follows the footnotes that directly follow
\* the i-th match.
afterFootnotes(i) ==
    substring(between(i), calculateFootnoteLength(between(i)), Len(between(i)))

\* The pair has two records: the highlight, without the text of the comment
\* among its footnotes, and the comment.
independentPair(i) ==
    /\ \E k \in 1..Len(last.newHighlights) :
           /\ recordsAt(lastMatches[i].index) = {k}
           /\ last.newHighlights[k].isNativeComment = FALSE
           /\ \A f \in 1..Len(last.newHighlights[k].footnoteContents) :
                  last.newHighlights[k].footnoteContents[f] # trim(lastMatches[i + 1].text)
    /\ \E k \in 1..Len(last.newHighlights) :
           /\ recordsAt(lastMatches[i + 1].index) = {k}
           /\ last.newHighlights[k].isNativeComment = TRUE
           /\ last.newHighlights[k].text = lastMatches[i + 1].text

\* The i-th match and the next both have a body that is not blank.
bothHaveText(i) ==
    /\ trim(lastMatches[i].text) # <<>>
    /\ trim(lastMatches[i + 1].text) # <<>>

offsets(start, end) == start..(end - 1)

\* The offsets of the URL of a link range: from behind the "(" that follows
\* the text of the link to the closing ")".
urlOffsets(range) ==
    LET closing == {k \in range.start..(range.end - 1) : charAt(last.content, k) = "]"}
    IN  (Least(closing) + 2)..(range.end - 2)

\* The records whose span shares an offset with a code range.
recordsOverCode ==
    {k \in 1..Len(last.newHighlights) :
        \E r \in 1..Len(getCodeBlockRanges(last.content)) :
            offsets(last.newHighlights[k].startOffset, last.newHighlights[k].endOffset)
            \cap offsets(getCodeBlockRanges(last.content)[r].start,
                         getCodeBlockRanges(last.content)[r].end) # {}}

\* The records whose opening or closing delimiter lies inside the URL of a
\* link.
recordsDelimitedInUrl ==
    {k \in 1..Len(last.newHighlights) :
        \E r \in 1..Len(getMarkdownLinkRanges(last.content)) :
            LET url == urlOffsets(getMarkdownLinkRanges(last.content)[r])
                h == last.newHighlights[k]
            IN  \/ {h.startOffset, h.startOffset + 1} \subseteq url
                \/ {h.endOffset - 2, h.endOffset - 1} \subseteq url}

\* The matches of the highlight pattern that start the text and end where
\* a link begins.
highlightsBeforeLink ==
    {m \in {execAll(last.content, 0, "highlight")[k] :
                k \in 1..Len(execAll(last.content, 0, "highlight"))} :
        /\ m.index = 0 /\ trim(m.text) # <<>>
        /\ \E r \in 1..Len(getMarkdownLinkRanges(last.content)) :
               getMarkdownLinkRanges(last.content)[r].start = m.end}

\* C13: no record of a scan has a span that overlaps a code range, none has
\* its opening or closing delimiter inside the URL of a link, and a
\* highlight directly before a link has exactly one record.
C13_NoRecordInCodeOrUrl ==
    AfterScan =>
        /\ recordsOverCode = {}
        /\ recordsDelimitedInUrl = {}
        /\ \A m \in highlightsBeforeLink : Cardinality(recordsAt(m.index)) = 1

\* The scan of a highlight directly before a link, a highlight in the URL
\* of the link and a highlight in inline code: one record, the first.
C13_Witness ==
    /\ AfterScan
    /\ last.content = ThreeRegions
    /\ Len(execAll(last.content, 0, "highlight")) = 3
    /\ highlightsBeforeLink # {}
    /\ Len(last.newHighlights) = 1
    /\ recordsAt(0) = {1}

\* The matches of the pattern of one kind in the text of the pass.
rawMatches(kind) ==
    {execAll(last.content, 0, kind)[k] : k \in 1..Len(execAll(last.content, 0, kind))}

\* The matches of a kind with one more delimiter character directly before
\* or after.
doubledMatches(kind, delim) ==
    {m \in rawMatches(kind) :
        charAt(last.content, m.index - 1) = delim \/ charAt(last.content, m.end) = delim}

\* C14: a match of ==...== directly preceded or followed by "=" and a match
\* of %%...%% directly preceded or followed by "%" have no record; the
\* text ===a=== has no record and the text ==a== has one.
C14_DoubledDelimiterDropped ==
    AfterScan =>
        /\ \A m \in doubledMatches("highlight", "=") \cup doubledMatches("comment", "%") :
               recordsAt(m.index) = {}
        /\ last.content = Strict => last.newHighlights = <<>>
        /\ last.content = HA =>
               /\ Len(last.newHighlights) = 1
               /\ last.newHighlights[1].text = <<"a">>

\* The scan of ===a===: the pattern matches and nothing is recorded.
C14_Witness ==
    /\ AfterScan
    /\ last.content = Strict
    /\ doubledMatches("highlight", "=") # {}
    /\ last.newHighlights = <<>>

\* The elements of a sequence.
elementsOf(seq) == {seq[k] : k \in 1..Len(seq)}

\* What the i-th match, a highlight, collects: its inline footnotes with
\* content, its resolved references and the comment merged into it, each
\* with its offset in the text.
collectedBy(i) ==
    elementsOf(inlineEntries(SelectSeq(
        extractInlineFootnotes(last.content, lastMatches[i].end),
        LAMBDA f : trim(f.content) # <<>>)))
    \cup elementsOf(standardFootnotesAfter(last.content, lastMatches[i].end,
                                           extractFootnotes(last.content)))
    \cup (IF isAdjacentComment(last.content, lastMatches, i)
          THEN {[index |-> lastMatches[i + 1].index,
                 content |-> trim(lastMatches[i + 1].text)]}
          ELSE {})

\* The contents of a set of entries at different offsets, by ascending offset.
byPosition(entries) ==
    LET listing == CHOOSE q \in [1..Cardinality(entries) -> entries] :
                       \A a, b \in 1..Cardinality(entries) :
                           a < b => q[a].index < q[b].index
    IN  [k \in 1..Cardinality(entries) |-> listing[k].content]

\* C15: the footnoteContents of a highlight record are the contents of its
\* inline footnotes, resolved references and merged comment in the order
\* of their offsets in the text, wherever the definitions stand.
C15_FootnotesInSourceOrder ==
    AfterScan =>
        \A i \in 1..Len(lastMatches) : \A k \in recordsAt(lastMatches[i].index) :
            lastMatches[i].type = "highlight" =>
                /\ last.newHighlights[k].footnoteContents = byPosition(collectedBy(i))
                /\ last.newHighlights[k].footnoteCount = Cardinality(collectedBy(i))

\* A highlight followed by a reference, an inline footnote and a comment,
\* with the definition at the end of the text.
C15_Witness ==
    /\ AfterScan
    /\ last.content = RefInlineComment
    /\ Len(last.newHighlights) = 1
    /\ last.newHighlights[1].footnoteContents = <<<<"d">>, <<"n">>, <<"b">>>>

\* The references [^key] of the chain after the i-th match, [index, key],
\* and the definitions of the text.
chainRefs(i) ==
    footnoteKeys(substring(last.content, lastMatches[i].end, Len(last.content)),
                 footnoteRun(substring(last.content, lastMatches[i].end, Len(last.content)),
                             0, "standard"))

lastDefinitions == extractFootnotes(last.content)

\* The references of the chain whose key has no definition or a definition
\* with empty content.
droppedRefs(i) ==
    {r \in 1..Len(chainRefs(i)) :
        \/ chainRefs(i)[r].key \notin DOMAIN lastDefinitions
        \/ lastDefinitions[chainRefs(i)[r].key] = <<>>}

\* What the i-th match collects besides its references.
collectedBesideRefs(i) ==
    elementsOf(inlineEntries(SelectSeq(
        extractInlineFootnotes(last.content, lastMatches[i].end),
        LAMBDA f : trim(f.content) # <<>>)))
    \cup (IF isAdjacentComment(last.content, lastMatches, i)
          THEN {[index |-> lastMatches[i + 1].index,
                 content |-> trim(lastMatches[i + 1].text)]}
          ELSE {})

\* The entries of the references of the chain that are not dropped.
collectedRefs(i) ==
    {[index |-> lastMatches[i].end + chainRefs(i)[r].index,
      content |-> lastDefinitions[chainRefs(i)[r].key]] :
        r \in (1..Len(chainRefs(i))) \ droppedRefs(i)}

\* C25: a reference of the chain after a highlight whose key has no
\* definition, or a definition with empty content, adds no entry to the
\* footnoteContents of the highlight, and every other reference of the
\* chain, before or after it, adds its definition.
C25_UnresolvedReferenceDropped ==
    AfterScan =>
        \A i \in 1..Len(lastMatches) : \A k \in recordsAt(lastMatches[i].index) :
            lastMatches[i].type = "highlight" =>
                /\ last.newHighlights[k].footnoteContents
                       = byPosition(collectedBesideRefs(i) \cup collectedRefs(i))
                /\ last.newHighlights[k].footnoteCount
                       = Cardinality(collectedBesideRefs(i))
                         + Len(chainRefs(i)) - Cardinality(droppedRefs(i))

\* A highlight followed by a reference without a definition, one with a
\* blank definition and one with a definition: the last alone is collected.
C25_Witness ==
    /\ AfterScan
    /\ last.content = ThreeRefs
    /\ Len(chainRefs(1)) = 3
    /\ droppedRefs(1) = {1, 2}
    /\ <<"c">> \in DOMAIN lastDefinitions
    /\ <<"y">> \notin DOMAIN lastDefinitions
    /\ last.newHighlights[1].footnoteContents = <<<<"d">>>>

\* The comment matches of the pass that passed the filters and have text.
commentsWithText ==
    {i \in 1..Len(lastMatches) :
        lastMatches[i].type = "comment" /\ ~isBlank(lastMatches[i].text)}

\* The i-th match has its own comment record.
emittedAsComment(i) ==
    \E k \in recordsAt(lastMatches[i].index) : last.newHighlights[k].isNativeComment

\* The trimmed text of the i-th match is a footnote of a highlight record.
heldByHighlight(i) ==
    \E k \in 1..Len(last.newHighlights) :
        /\ ~last.newHighlights[k].isNativeComment
        /\ trim(lastMatches[i].text) \in elementsOf(last.newHighlights[k].footnoteContents)

\* C28: every comment match that passes the filters and has text that is
\* not blank is in the result of the scan: as a comment record of its own
\* or as a footnote of a highlight record.
C28_EveryCommentAccountedFor ==
    AfterScan => \A i \in commentsWithText : emittedAsComment(i) \/ heldByHighlight(i)

\* C29: the records of one scan are listed in strictly increasing
\* startOffset and their spans [startOffset, endOffset) are pairwise
\* disjoint, highlight and comment records together.
C29_RecordsOrderedAndDisjoint ==
    AfterScan =>
        \A k, j \in 1..Len(last.newHighlights) :
            k < j => /\ last.newHighlights[k].startOffset < last.newHighlights[j].startOffset
                     /\ last.newHighlights[k].endOffset <= last.newHighlights[j].startOffset

\* ------------------------------------------------------------------------
\* Properties of the stored map.
\* ------------------------------------------------------------------------

\* C16: after fixDuplicateTimestamps has run, no two records of a file
\* share a createdAt.
C16_NoSharedTimestampAfterFix ==
    last.op = "layout-ready" =>
        \A p \in DOMAIN highlights :
            \A i, j \in 1..Len(highlights[p]) :
                i # j => highlights[p][i].createdAt # highlights[p][j].createdAt

\* C17: every record stored under the key p has the filePath p.
C17_FilePathIsKey ==
    \A p \in DOMAIN highlights :
        \A k \in 1..Len(highlights[p]) : highlights[p][k].filePath = p

\* A list that a rename has moved to the new path.
C17_Witness ==
    /\ last.op = "rename" /\ last.saved
    /\ last.path \in DOMAIN highlights
    /\ highlights[last.path] # <<>>
    /\ \A k \in 1..Len(highlights[last.path]) :
           /\ highlights[last.path][k].filePath = last.path
           /\ last.before[last.oldPath][k].filePath = last.oldPath

\* C19: after handleFileRename the map has no entry under the old path, and
\* the entry under the new path holds the records of the old entry in
\* their order with their id, createdAt, text and offsets.
C19_RenameMovesEntry ==
    last.op = "rename" =>
        /\ last.oldPath \notin DOMAIN highlights
        /\ last.oldPath \in DOMAIN last.before =>
               /\ last.path \in DOMAIN highlights
               /\ Len(highlights[last.path]) = Len(last.before[last.oldPath])
               /\ \A k \in 1..Len(last.before[last.oldPath]) :
                      /\ highlights[last.path][k].id = last.before[last.oldPath][k].id
                      /\ highlights[last.path][k].createdAt
                             = last.before[last.oldPath][k].createdAt
                      /\ highlights[last.path][k].text = last.before[last.oldPath][k].text
                      /\ highlights[last.path][k].startOffset
                             = last.before[last.oldPath][k].startOffset
                      /\ highlights[last.path][k].endOffset
                             = last.before[last.oldPath][k].endOffset

\* ------------------------------------------------------------------------
\* Properties of the debounce timer.
\* ------------------------------------------------------------------------

\* The step is an editor-change event, raised by an edit or by the
\* replaceSelection of createHighlight.
editorChanged ==
    /\ clock' = clock + 1
    /\ last'.op \in {"editor-change", "createHighlight"}

\* The step is the firing of a timer whose view holds a file that exists.
timerFired ==
    /\ Len(timeout') < Len(timeout)
    /\ timeout[1].file \in DOMAIN vault
    /\ "value" \notin DOMAIN timeout[1]

\* C18: an editor-change event leaves its own timer as the only pending
\* one, so at most one scan is pending; a timer that fires is gone and its
\* one scan reads the text the file has at that moment.
C18_EditsRestartTheOneTimer ==
    [][/\ Len(timeout') <= 1
       /\ editorChanged => timeout' = <<[file |-> last'.path]>>
       /\ timerFired =>
              /\ timeout' = <<>>
              /\ last'.op = "scan"
              /\ last'.path = timeout[1].file
              /\ last'.content = vault[timeout[1].file]]_vars

\* An edit that arrived while a timer was pending: the timer of this edit
\* is the only one.
C18_Witness ==
    /\ last.op = "editor-change" /\ last.restarted
    /\ timeout = <<[file |-> last.path]>>

\* ------------------------------------------------------------------------
\* Properties of the code and link ranges of the text of a pass.
\* ------------------------------------------------------------------------

\* No two ranges of the list share an offset.
pairwiseDisjoint(ranges) ==
    \A r, q \in 1..Len(ranges) :
        r # q => offsets(ranges[r].start, ranges[r].end)
                 \cap offsets(ranges[q].start, ranges[q].end) = {}

\* The fenced ranges and the inline ranges of the text of the pass.
fencedOfLast == fencedRanges(last.content, 0, -1, "none")

inlineOfLast == execRanges(last.content, 0, "inlineCode")

\* C23: the code-block ranges of a text, fenced and inline together, are
\* pairwise disjoint, and so are its link ranges.
C23_CodeRangesDisjoint ==
    AfterScan =>
        /\ pairwiseDisjoint(getCodeBlockRanges(last.content))
        /\ pairwiseDisjoint(getMarkdownLinkRanges(last.content))

\* C23 for each kind of range on its own: the fenced ranges are pairwise
\* disjoint, the inline ranges are, and the link ranges are; the code ranges
\* are the fenced ones followed by the inline ones.
C23_RangesOfOneKindDisjoint ==
    AfterScan =>
        /\ getCodeBlockRanges(last.content) = fencedOfLast \o inlineOfLast
        /\ pairwiseDisjoint(fencedOfLast)
        /\ pairwiseDisjoint(inlineOfLast)
        /\ pairwiseDisjoint(getMarkdownLinkRanges(last.content))

\* A text with two fenced blocks, two spans of inline code and two links.
C23_Witness ==
    /\ AfterScan
    /\ Len(fencedOfLast) = 2
    /\ Len(inlineOfLast) = 2
    /\ Len(getMarkdownLinkRanges(last.content)) = 2

\* The offsets at which the lines of the text of the pass start.
lineStarts ==
    {0} \cup {k + 1 : k \in {j \in 0..(Len(last.content) - 1) : last.content[j + 1] = NL}}

\* The fence type of the line that starts at p: "none" when the line does
\* not start with a fence marker.
markerAt(p) ==
    IF p + 3 > Len(last.content) THEN "none"
    ELSE IF SubSeq(last.content, p + 1, p + 3) = Ticks THEN "backtick"
    ELSE IF SubSeq(last.content, p + 1, p + 3) = Waves THEN "wave"
    ELSE "none"

\* The starts of the lines after the one at p that have its fence type.
laterOfSameType(p) == {q \in lineStarts : q > p /\ markerAt(q) = markerAt(p)}

\* C24: a fenced range starts at a fence line and ends with the first later
\* line that starts with the same marker, or at the end of the text when
\* there is none; a fence line of the other type inside it neither closes it
\* nor starts a range, and every fence line lies in a range.
C24_FenceClosedBySameType ==
    AfterScan =>
        /\ \A r \in 1..Len(fencedOfLast) :
              /\ fencedOfLast[r].start \in lineStarts
              /\ markerAt(fencedOfLast[r].start) # "none"
              /\ fencedOfLast[r].end =
                     IF laterOfSameType(fencedOfLast[r].start) = {} THEN Len(last.content)
                     ELSE lineEndFrom(last.content,
                                      Least(laterOfSameType(fencedOfLast[r].start)))
              /\ \A q \in 1..Len(fencedOfLast) :
                     q # r => fencedOfLast[q].start
                                 \notin fencedOfLast[r].start..fencedOfLast[r].end
        /\ \A p \in lineStarts :
              markerAt(p) # "none"
              => \E r \in 1..Len(fencedOfLast) :
                     fencedOfLast[r].start <= p /\ p <= fencedOfLast[r].end

\* A block opened by three grave accents, with a line of three tildes
\* inside, closed by three grave accents, and then a block opened by three
\* tildes that is open at the end of the text.
C24_Witness ==
    /\ AfterScan
    /\ last.content = joinLines(<<Ticks, WavesInfo, Ticks, WavesInfo>>)
    /\ fencedOfLast = <<[start |-> 0, end |-> 2 * Len(Ticks) + Len(WavesInfo) + 2],
                        [start |-> 2 * Len(Ticks) + Len(WavesInfo) + 3,
                         end |-> Len(last.content)]>>

\* ------------------------------------------------------------------------
\* Properties of a matched record.
\* ------------------------------------------------------------------------

\* The stored records the k-th record of the pass has the id of.
storedOf(k) ==
    {j \in 1..Len(last.existing) : last.existing[j].id = last.newHighlights[k].id}

\* The k-th record of the pass has the positional, footnote and type fields
\* of the k-th occurrence of the current scan.
fieldsOfCurrentScan(k) ==
    /\ last.newHighlights[k].line = lastOccurrences[k].line
    /\ last.newHighlights[k].startOffset = lastOccurrences[k].startOffset
    /\ last.newHighlights[k].endOffset = lastOccurrences[k].endOffset
    /\ last.newHighlights[k].footnoteContents = lastOccurrences[k].footnoteContents
    /\ last.newHighlights[k].isNativeComment = lastOccurrences[k].isNativeComment
    /\ last.newHighlights[k].type = lastOccurrences[k].type

\* The property of a record, or Null when the record has none.
propertyOf(h, name) == IF name \in DOMAIN h THEN h[name] ELSE Null

\* The createdAt of a record, or 0 when the record has none.
createdAtOf(h) == IF "createdAt" \in DOMAIN h THEN h.createdAt ELSE 0

\* The k-th record of the pass has the tags and the color of the j-th
\* stored record.
keepsTagsAndColor(k, j) ==
    /\ last.newHighlights[k].tags = last.existing[j].tags
    /\ propertyOf(last.newHighlights[k], "color") = propertyOf(last.existing[j], "color")

\* C22: when an occurrence matches a stored record, the reconciled record
\* has the stored record's id and createdAt, takes line, startOffset,
\* endOffset, footnoteContents, isNativeComment and type from the current
\* scan, and keeps the stored record's tags and color.
C22_MatchedRecordCarriesCreatedAt ==
    AfterScan =>
        \A k \in 1..Len(last.newHighlights) : \A j \in storedOf(k) :
            /\ createdAtOf(last.newHighlights[k]) = createdAtOf(last.existing[j])
            /\ fieldsOfCurrentScan(k)
            /\ keepsTagsAndColor(k, j)

\* C22 with the createdAt of a stored record that has none: the matched
\* record then gets the time of the scan.
C22_MatchedRecordCarriesCreatedAtIfAny ==
    AfterScan =>
        \A k \in 1..Len(last.newHighlights) : \A j \in storedOf(k) :
            /\ "createdAt" \in DOMAIN last.existing[j]
                   => last.newHighlights[k].createdAt = last.existing[j].createdAt
            /\ "createdAt" \notin DOMAIN last.existing[j]
                   => last.newHighlights[k].createdAt = TimeOf(clock)
            /\ fieldsOfCurrentScan(k)
            /\ keepsTagsAndColor(k, j)

\* A stored highlight with a tag, a color and a createdAt was matched by a
\* highlight that has moved to another line and has a comment to collect.
C22_Witness ==
    /\ AfterScan
    /\ \E k \in 1..Len(last.newHighlights) : \E j \in storedOf(k) :
          /\ last.existing[j].tags # <<>>
          /\ "color" \in DOMAIN last.existing[j]
          /\ "createdAt" \in DOMAIN last.existing[j]
          /\ last.existing[j].line # last.newHighlights[k].line
          /\ last.existing[j].startOffset # last.newHighlights[k].startOffset
          /\ last.existing[j].footnoteContents # last.newHighlights[k].footnoteContents
          /\ last.newHighlights[k].footnoteContents = <<<<"b">>>>

\* ------------------------------------------------------------------------
\* Properties of the entries of other files.
\* ------------------------------------------------------------------------

\* The entry of a path in a map: the list in a sequence of one, or none.
entryOf(map, p) == IF p \in DOMAIN map THEN <<map[p]>> ELSE <<>>

\* The paths whose entry the handler that ran last may have changed.
pathsOfLast ==
    IF last.op \in {"scan", "createHighlight", "delete"} THEN {last.path}
    ELSE IF last.op = "rename" THEN {last.oldPath, last.path}
    ELSE Paths

\* C27: a scan of a file, a createHighlight in it or its deletion changes
\* only the map entry of the path of that file, and a rename only the
\* entries of the old and the new path.
C27_OtherEntriesUnchanged ==
    [][\A p \in (Paths \cup DOMAIN highlights) \ pathsOfLast' :
           entryOf(highlights', p) = entryOf(highlights, p)]_vars

\* A rename moved the records of one file while the map held the records
\* of a third path.
C27_Witness ==
    /\ last.op = "rename" /\ last.saved
    /\ highlights[last.path] # <<>>
    /\ \E p \in DOMAIN highlights :
          /\ p \notin {last.oldPath, last.path} /\ highlights[p] # <<>>
          /\ p \in DOMAIN last.before /\ last.before[p] = highlights[p]

\* ------------------------------------------------------------------------
\* Properties of the file-create handler.
\* ------------------------------------------------------------------------

\* The handler that ran last was handleFileCreate with a read that failed.
readFailed == last.op = "create"

\* C26: a failed read in the file-create handler leaves the map as it was
\* before the event, and the events handled after it are processed as
\* ever: a scan of the created file reconciles the occurrences of its text
\* and stores the list when the change detector says so.
C26_FailedReadChangesNothing ==
    [][/\ readFailed' => /\ highlights' = highlights
                          /\ last'.before = highlights
       /\ readFailed /\ last'.op = "scan"
          => /\ Len(last'.newHighlights) = Len(occurrencesOf(last'.content))
             /\ last'.saved => highlights' = mapSet(highlights, last'.path,
                                                    last'.newHighlights)
             /\ ~last'.saved => highlights' = highlights]_vars

\* The read of a created file failed while the map held the records of
\* another file.
C26_Witness ==
    /\ readFailed
    /\ \E p \in DOMAIN highlights : p # last.path /\ highlights[p] # <<>>
    /\ last.path \in DOMAIN vault /\ vault[last.path] # <<>>
    /\ last.path \notin DOMAIN highlights

\* ------------------------------------------------------------------------
\* Properties of the window resize handler.
\* ------------------------------------------------------------------------

AfterResize == last.op = "resize-window"

\* The time between the resize event and the last accepted one.
sinceAccepted == last.at - last.throttleTime

\* C30: a window resize event that arrives at least 100 ms after the last
\* accepted one schedules the editing-mode and the reading-mode layout,
\* and one that arrives sooner schedules neither.
C30_ResizeSchedulesBothOrNeither ==
    AfterResize =>
        /\ sinceAccepted >= minInterval => last.layout /\ last.readingLayout
        /\ sinceAccepted < minInterval => ~last.layout /\ ~last.readingLayout

\* ------------------------------------------------------------------------
\* Properties of the cleanup of duplicate timestamps.
\* ------------------------------------------------------------------------

AfterFix == last.op = "layout-ready"

\* The records of a list that had the createdAt of its k-th record before
\* the cleanup.
sharing(list, k) == {j \in 1..Len(list) : list[j].createdAt = list[k].createdAt}

\* The number of records of the group of the k-th record that start before
\* it: 0 for the record with the lowest startOffset.
placeInGroup(list, k) ==
    Cardinality({j \in sharing(list, k) : list[j].startOffset < list[k].startOffset})

\* C21: in every group of records of a file that share a createdAt the
\* record with the lowest startOffset is unchanged and the k-th other
\* record, in startOffset order, is raised by k; a record with a unique
\* createdAt is not modified; nothing but createdAt changes, and the
\* settings are saved only if some record was changed.
C21_GroupRaisedInOffsetOrder ==
    AfterFix =>
        /\ DOMAIN highlights = DOMAIN last.before
        /\ \A p \in DOMAIN highlights :
              /\ Len(highlights[p]) = Len(last.before[p])
              /\ \A k \in 1..Len(highlights[p]) :
                    /\ highlights[p][k] =
                           [last.before[p][k] EXCEPT !.createdAt = highlights[p][k].createdAt]
                    /\ highlights[p][k].createdAt =
                           last.before[p][k].createdAt + placeInGroup(last.before[p], k)
                    /\ sharing(last.before[p], k) = {k}
                           => highlights[p][k] = last.before[p][k]
        /\ last.saved => highlights # last.before

\* A group of three records stored against the order of their offsets was
\* renumbered and saved.
C21_Witness ==
    /\ AfterFix /\ last.saved
    /\ \E p \in DOMAIN highlights :
          /\ Len(last.before[p]) = 3
          /\ sharing(last.before[p], 1) = {1, 2, 3}
          /\ last.before[p][1].startOffset > last.before[p][3].startOffset
          /\ highlights[p][1].createdAt = last.before[p][1].createdAt + 2
          /\ highlights[p][3].createdAt = last.before[p][3].createdAt

\* ------------------------------------------------------------------------
\* Properties of the timestamps of new records.
\* ------------------------------------------------------------------------

\* The records of the pass that no stored record gave its id.
synthesized == {k \in 1..Len(last.newHighlights) : isSynthesized(k)}

\* C20: any two records newly synthesized in one scan have different
\* createdAt values, each the modify time plus the start offset modulo 1000.
C20_NewRecordsDifferInCreatedAt ==
    AfterScan =>
        \A i, j \in 1..Len(last.newHighlights) :
            (/\ i # j
             /\ last.newHighlights[i].id \notin idsOf(last.existing)
             /\ last.newHighlights[j].id \notin idsOf(last.existing))
            => /\ i \in synthesized /\ j \in synthesized
               /\ last.newHighlights[i].createdAt # last.newHighlights[j].createdAt

====
